---- MODULE Spec2Model ----
(***************************************************************************)
(* Model of the watermark service: EmbeddedService, ExtractService and     *)
(* StatDetectService, with the files they keep in the temp directories     *)
(* watermarked_images (the side-info catalog) and extracted_watermarks.    *)
(*                                                                         *)
(* Abstractions.  Pixel matrices, the DWT and the SVD are not computed:    *)
(* an image is its size, its colour mode and its perceptual hash; a        *)
(* singular spectrum is its length.  scalars alpha and tau are in tenths   *)
(* (6 is 0.6).  A JSON document is a record that says, for every field the *)
(* code reads, whether it is there and which JSON type it has.  Exceptions *)
(* are results with outcome "raise".                                       *)
(***************************************************************************)
EXTENDS Integers, Sequences, FiniteSets, TLC

VARIABLES
    imgFiles,         \* image files on disk: path -> image
    jsonFiles,        \* .wm.json files on disk: path -> [ok, doc]
    extractedFiles,   \* extracted_<uid>.jpg files in extracted_watermarks
    nextUid,          \* the next uuid4 the process draws
    sideinfo_fetcher, \* ExtractService.sideinfo_fetcher: "none" or "set"
    embedding,        \* the embed call that is between its file writes, if any
    response,         \* what the HTTP handler that ran last answered, if one ran
    watermarks,       \* the rows of table watermarks: watermark_id -> row
    next_watermark_id,\* the value the table's id sequence hands out next
    deletes,          \* the delete_watermark calls of concurrent requests
    last              \* the call that ended last, with what it returned

dbVars == <<watermarks, next_watermark_id, deletes>>

vars == <<imgFiles, jsonFiles, extractedFiles, nextUid, sideinfo_fetcher, embedding, response,
          watermarks, next_watermark_id, deletes, last>>

\* ---------------------------------------------------------------- bounds

\* uuid4 draws (embed and extract calls) explored in one behaviour
MaxUid == 2
\* side-info records in the catalog of the lookup specification
MaxCat == 3
\* rows inserted into table watermarks in one behaviour
MaxWm == 2
\* requests that call delete_watermark at the same time
MaxProcs == 2

\* ------------------------------------------------------ program constants

\* ExtractService.phash_hamming_threshold
phash_hamming_threshold == 12
\* EmbeddedService.alpha, in tenths
DefaultAlpha == 6
\* StatDetectService.default_pcc_threshold, in tenths
default_pcc_threshold == 7
\* best_dist before the catalog walk
InitialBestDist == 1000

\* ----------------------------------------------------------- small helpers

Min2(a, b) == IF a <= b THEN a ELSE b

Min3(a, b, c) == Min2(a, Min2(b, c))

Abs(x) == IF x < 0 THEN -x ELSE x

CeilHalf(n) == (n + 1) \div 2

\* ------------------------------------------------------------------ paths

\* A file name is its directory, the uuid in its stem and its extensions:
\* watermarked_<uid>.wm.json is [dir, uid, <<"wm", "json">>].
CatalogDir == "watermarked_images"

CustomDir == "custom_out"

\* A variant that names every file the service writes after the same id
MkPathSameName(dir, uid, exts) == [dir |-> dir, uid |-> IF uid = 0 THEN 0 ELSE 1, exts |-> exts]

MkPath(dir, uid, exts) == [dir |-> dir, uid |-> uid, exts |-> exts]

NoPath == MkPath("", 0, <<>>)

\* os.path.splitext(p)[0]: the name without its last extension
SplitextStem(p) ==
    IF Len(p.exts) = 0 THEN p
    ELSE [p EXCEPT !.exts = SubSeq(p.exts, 1, Len(p.exts) - 1)]

\* stem + ".wm.json", stem + ".jpg", ...
AddExt(p, exts) == [p EXCEPT !.exts = p.exts \o exts]

\* ----------------------------------------------------------------- images

\* A 64-bit pHash as the code keeps it: 16 hex digits, most significant first.
HexZero == <<0, 0, 0, 0, 0, 0, 0, 0, 0, 0, 0, 0, 0, 0, 0, 0>>

\* 0000000000000fff: 12 bits from HexZero
Hex12 == <<0, 0, 0, 0, 0, 0, 0, 0, 0, 0, 0, 0, 0, 15, 15, 15>>

\* 0000000000001fff: 13 bits from HexZero, 1 from Hex12
Hex13 == <<0, 0, 0, 0, 0, 0, 0, 0, 0, 0, 0, 0, 1, 15, 15, 15>>

\* 00000000000000f0: 4 bits from HexZero
Hex4 == <<0, 0, 0, 0, 0, 0, 0, 0, 0, 0, 0, 0, 0, 0, 15, 0>>

Bit(x, i) == (x \div (2 ^ i)) % 2

\* a ^ b on one hex digit
XorNibble(a, b) ==
      ((Bit(a, 0) + Bit(b, 0)) % 2)
    + 2 * ((Bit(a, 1) + Bit(b, 1)) % 2)
    + 4 * ((Bit(a, 2) + Bit(b, 2)) % 2)
    + 8 * ((Bit(a, 3) + Bit(b, 3)) % 2)

\* bin(x).count("1") on one hex digit
PopNibble(x) == Bit(x, 0) + Bit(x, 1) + Bit(x, 2) + Bit(x, 3)

RECURSIVE SumPop(_, _, _)
SumPop(h1, h2, i) ==
    IF i > Len(h1) THEN 0
    ELSE PopNibble(XorNibble(h1[i], h2[i])) + SumPop(h1, h2, i + 1)

_hamming64(h1, h2) == SumPop(h1, h2, 1)

\* An image: decodable or not, its size, its mode, the pHash of its pixels.
MkImg(w, h, mode, ph) == [ok |-> TRUE, w |-> w, h |-> h, mode |-> mode, ph |-> ph]

BadImg == [ok |-> FALSE, w |-> 0, h |-> 0, mode |-> "", ph |-> HexZero]

\* A base64 payload: an image file, bytes that are no image, or no base64.
B64Of(img) == [k |-> "image", img |-> img]

B64NotImage == [k |-> "not_image", img |-> BadImg]

B64BadBase64 == [k |-> "bad_base64", img |-> BadImg]

\* _decode_base64_to_pil: the image, or the exception it raises
_decode_base64_to_pil(b64) ==
    CASE b64.k = "image" /\ b64.img.ok -> [outcome |-> "return", exc |-> "", img |-> b64.img]
      [] b64.k = "bad_base64" -> [outcome |-> "raise", exc |-> "ValueError", img |-> BadImg]
      [] OTHER -> [outcome |-> "raise", exc |-> "UnidentifiedImageError", img |-> BadImg]

\* ------------------------------------------------------ side-info documents

\* A JSON value the code reads is a tag t and, where it matters, a content.
\* wm_params.alpha: a number n (tenths), a numeric string, any other string, null
AlphaNum(n) == [t |-> "num", n |-> n]

AlphaNumStr(n) == [t |-> "numstr", n |-> n]

AlphaOther(t) == [t |-> t, n |-> 0]

\* wm_params.wavelet: a string s, or a number
WaveletStr(s) == [t |-> "str", s |-> s]

WaveletOther(t) == [t |-> t, s |-> ""]

\* canonical_size: a list v of integers, or null, a number, a list of floats
SizeList(v) == [t |-> "list", v |-> v]

SizeOther(t) == [t |-> t, v |-> <<>>]

\* host_S[c]: a flat list of len floats, or a nested list, a number, strings
SFlat(len) == [t |-> "flat", len |-> len]

SOther(t) == [t |-> t, len |-> 0]

\* output_path, watermark_ref.path: a string naming a file, or absent
PathStr(p) == [t |-> "str", p |-> p]

PathAbsent == [t |-> "absent", p |-> NoPath]

\* watermark_ref.image_base64: a string (a payload), a number, or absent
B64Str(b64) == [t |-> "str", b64 |-> b64]

B64Other(t) == [t |-> t, b64 |-> B64NotImage]

\* The document.  top is the JSON type of the document itself; wm_params, host_S
\* and watermark_ref are the JSON types of those three values.
MkDoc(alpha, wavelet, size, out, ll, sR, sG, sB, b64, path, resized) ==
    [top |-> "obj",
     wm_params |-> "obj", alpha |-> alpha, wavelet |-> wavelet,
     canonical_size |-> size, output_path |-> out, ll_shapes |-> ll,
     host_S |-> "obj", S |-> [c \in {"R", "G", "B"} |->
                                 IF c = "R" THEN sR ELSE IF c = "G" THEN sG ELSE sB],
     watermark_ref |-> "obj", image_base64 |-> b64, path |-> path,
     resized_to |-> resized]

\* {} : every key missing
EmptyObjDoc ==
    [MkDoc(AlphaOther("absent"), WaveletOther("absent"), SizeOther("absent"), PathAbsent,
           <<>>, SOther("absent"), SOther("absent"), SOther("absent"),
           B64Other("absent"), PathAbsent, <<>>)
     EXCEPT !.top = "empty_obj", !.wm_params = "absent", !.host_S = "absent",
            !.watermark_ref = "absent"]

\* null, and a non-empty list
NullDoc == [EmptyObjDoc EXCEPT !.top = "null"]

ListDoc == [EmptyObjDoc EXCEPT !.top = "list"]

\* Python truth of a document: None and {} are false
Truthy(doc) == doc.top \notin {"null", "empty_obj"}

\* wavelet names pywt knows with the Haar filter (db1 is Haar)
SupportedWavelets == {"haar", "db1"}

\* --------------------------------------------------------- extract results

\* sideinfo_used: the path or URL given, "provided_json", or db:<key>
Locator(t, p) == [t |-> t, p |-> p]

NoLocator == Locator("none", NoPath)

\* What an extract call gives back.  outcome is "return" (a result dict with
\* status) or "raise" (exception exc leaves the call).  wrote says whether the
\* extracted mark was saved to out_path.
NoResult ==
    [outcome |-> "return", exc |-> "", status |-> "", reason |-> "",
     alpha |-> 0, wavelet |-> "", canonical_size |-> <<0, 0>>,
     sideinfo_used |-> NoLocator, watermark_logo |-> "",
     wrote |-> FALSE, out_size |-> <<0, 0>>]

\* A variant that has written the output file before it gives up
SkipAfterWrite(status, reason) ==
    [NoResult EXCEPT !.status = status, !.reason = reason, !.wrote = TRUE]

Skip(status, reason) == [NoResult EXCEPT !.status = status, !.reason = reason]

Raise(exc) == [NoResult EXCEPT !.outcome = "raise", !.exc = exc]

\* The reads of the side-info keys, in the order of the code: "" when all succeed,
\* "missing_key" for a KeyError, "unreadable" for any other exception.
ReadKeys(meta) ==
    CASE meta.top = "empty_obj" -> "missing_key"
      [] meta.top # "obj" -> "unreadable"
      [] meta.wm_params = "absent" -> "missing_key"
      [] meta.wm_params # "obj" -> "unreadable"
      [] meta.alpha.t = "absent" -> "missing_key"
      [] meta.alpha.t \notin {"num", "numstr"} -> "unreadable"
      [] meta.wavelet.t = "absent" -> "missing_key"
      [] meta.canonical_size.t \in {"null", "num"} -> "unreadable"
      [] meta.host_S = "absent" -> "missing_key"
      [] meta.host_S # "obj" -> "unreadable"
      [] meta.S["R"].t = "absent" -> "missing_key"
      [] meta.S["R"].t = "strs" -> "unreadable"
      [] meta.S["G"].t = "absent" -> "missing_key"
      [] meta.S["G"].t = "strs" -> "unreadable"
      [] meta.S["B"].t = "absent" -> "missing_key"
      [] meta.S["B"].t = "strs" -> "unreadable"
      [] meta.watermark_ref = "absent" -> "missing_key"
      [] meta.watermark_ref = "null" -> "unreadable"
      [] OTHER -> ""

\* "image_base64" in watermark_ref, "path" in watermark_ref
HasB64(meta) == meta.watermark_ref = "obj" /\ meta.image_base64.t # "absent"

HasPath(meta) == meta.watermark_ref = "obj" /\ meta.path.t # "absent"

\* Whether the base64 value decodes to an image
B64Decodes(v) == v.t = "str" /\ _decode_base64_to_pil(v.b64).outcome = "return"

\* tuple(meta.get("canonical_size", [0, 0]))
CanonicalOf(meta) ==
    IF meta.canonical_size.t = "absent" THEN SizeList(<<0, 0>>) ELSE meta.canonical_size

\* Image.resize(size) accepts two positive integers
ResizeOk(size) ==
    /\ size.t = "list"
    /\ Len(size.v) = 2
    /\ size.v[1] > 0
    /\ size.v[2] > 0

\* _extract_channel on a suspect channel of ssize and a mark channel of msize
\* (both <<W, H>>): the size of the channel it returns, or the exception.
_extract_channel(ssize, msize, S, wavelet) ==
    LET lenMod == Min2(CeilHalf(ssize[2]), CeilHalf(ssize[1]))
        lenWm == Min2(CeilHalf(msize[2]), CeilHalf(msize[1]))
        n == Min3(lenMod, S.len, lenWm)
    IN  CASE ~(wavelet.t = "str" /\ wavelet.s \in SupportedWavelets) ->
                 [outcome |-> "raise", exc |-> "ValueError", size |-> <<0, 0>>]
          [] S.t = "scalar" -> [outcome |-> "raise", exc |-> "TypeError", size |-> <<0, 0>>]
          [] S.t # "flat" -> [outcome |-> "raise", exc |-> "ValueError", size |-> <<0, 0>>]
          [] n = 0 -> [outcome |-> "return", exc |-> "", size |-> ssize]
          [] OTHER -> [outcome |-> "return", exc |-> "",
                       size |-> <<2 * CeilHalf(msize[1]), 2 * CeilHalf(msize[2])>>]

\* Resize, the three channels, merge and save: lines 499-525 and 430-460.
ExtractCore(simg, meta, logo, source, used) ==
    LET canon == CanonicalOf(meta)
        keep == canon = SizeList(<<0, 0>>)
        ssize == IF keep THEN <<simg.w, simg.h>> ELSE canon.v
        msize == IF keep THEN <<logo.w, logo.h>> ELSE canon.v
        r == _extract_channel(ssize, msize, meta.S["R"], meta.wavelet)
        g == _extract_channel(ssize, msize, meta.S["G"], meta.wavelet)
        b == _extract_channel(ssize, msize, meta.S["B"], meta.wavelet)
    IN  CASE ~keep /\ ~ResizeOk(canon) ->
                 Raise(IF canon.t = "list" THEN "ValueError" ELSE "TypeError")
          [] r.outcome = "raise" -> Raise(r.exc)
          [] g.outcome = "raise" -> Raise(g.exc)
          [] b.outcome = "raise" -> Raise(b.exc)
          [] r.size # g.size \/ g.size # b.size -> Raise("ValueError")
          [] OTHER ->
                 [NoResult EXCEPT !.status = "ok_extracted",
                                  !.alpha = meta.alpha.n,
                                  !.wavelet = meta.wavelet.s,
                                  !.canonical_size = ssize,
                                  !.sideinfo_used = used,
                                  !.watermark_logo = source,
                                  !.wrote = TRUE,
                                  !.out_size = r.size]

\* _extract_from_suspect_with_meta(suspect_path, meta, out_path, sideinfo_used)
_extract_from_suspect_with_meta(simg, meta, used) ==
    LET err == ReadKeys(meta)
    IN  CASE err = "missing_key" -> Skip("skip_bad_meta", "missing_key")
          [] err = "unreadable" -> Skip("skip_bad_meta", "unreadable")
          [] HasB64(meta) ->
                 IF B64Decodes(meta.image_base64)
                 THEN ExtractCore(simg, meta, meta.image_base64.b64.img, "base64_data", used)
                 ELSE Skip("skip_bad_meta", "unreadable")
          [] HasPath(meta) ->
                 IF meta.path.p \notin DOMAIN imgFiles
                 THEN Skip("skip_bad_meta", "logo_path_invalid")
                 ELSE IF ~imgFiles[meta.path.p].ok
                 THEN Skip("skip_bad_meta", "unreadable")
                 ELSE ExtractCore(simg, meta, imgFiles[meta.path.p], "path", used)
          [] OTHER -> Skip("skip_bad_meta", "missing_wm_ref")

\* ------------------------------------------------------------ pHash lookup

\* os.path.exists
Exists(p) == p \in DOMAIN imgFiles \/ p \in DOMAIN jsonFiles

\* _phash64_from_pil: the hash of the image's pixels (the DCT is not computed)
_phash64_from_pil(img) == img.ph

\* _compute_image_phash: the hash, or None when the file does not open as an image
_compute_image_phash(p) ==
    IF p \in DOMAIN imgFiles /\ imgFiles[p].ok
    THEN [ok |-> TRUE, h |-> _phash64_from_pil(imgFiles[p])]
    ELSE [ok |-> FALSE, h |-> HexZero]

\* glob(dir/*.wm.json)
IsWmJson(p) ==
    /\ Len(p.exts) >= 2
    /\ p.exts[Len(p.exts) - 1] = "wm"
    /\ p.exts[Len(p.exts)] = "json"

GlobWmJson(dir) == {p \in DOMAIN jsonFiles : p.dir = dir /\ IsWmJson(p)}

\* The orders in which glob may list a set of files
Orders(S) == {o \in [1..Cardinality(S) -> S] : \A i, j \in DOMAIN o : o[i] = o[j] => i = j}

\* Lines 252-262: the published image of a record, or NoPath when none is found
LocateImage(json_path, meta) ==
    LET out_path == IF meta.output_path.t = "str" THEN meta.output_path.p ELSE NoPath
        stem == SplitextStem(json_path)
        jpg == AddExt(stem, <<"jpg">>)
        jpeg == AddExt(stem, <<"jpeg">>)
        png == AddExt(stem, <<"png">>)
    IN  IF out_path # NoPath /\ Exists(out_path) THEN out_path
        ELSE IF Exists(jpg) THEN jpg
        ELSE IF Exists(jpeg) THEN jpeg
        ELSE IF Exists(png) THEN png
        ELSE NoPath

NoBest == [json |-> NoPath, meta |-> EmptyObjDoc, dist |-> InitialBestDist, exc |-> ""]

\* A variant that keeps the first candidate it can hash
StepCandidateFirst(best, json_path, suspect_hash) ==
    LET f == jsonFiles[json_path]
        img == LocateImage(json_path, f.doc)
        ch == _compute_image_phash(img)
        d == _hamming64(suspect_hash, ch.h)
    IN  IF best.exc # "" \/ ~f.ok THEN best
        ELSE IF f.doc.top \notin {"obj", "empty_obj"} THEN [best EXCEPT !.exc = "AttributeError"]
        ELSE IF img = NoPath \/ ~ch.ok THEN best
        ELSE IF best.json = NoPath THEN [json |-> json_path, meta |-> f.doc, dist |-> d, exc |-> ""]
        ELSE best

\* A variant that takes a record whatever json.load makes of it
StepCandidateAny(best, json_path, suspect_hash) ==
    LET f == jsonFiles[json_path]
        img == LocateImage(json_path, f.doc)
        ch == _compute_image_phash(img)
        d == _hamming64(suspect_hash, ch.h)
    IN  IF best.exc # "" THEN best
        ELSE IF img = NoPath \/ ~ch.ok THEN best
        ELSE IF d < best.dist THEN [json |-> json_path, meta |-> f.doc, dist |-> d, exc |-> ""]
        ELSE best

\* One candidate of the walk, lines 251-270.  d < best replaces the best so far.
StepCandidate(best, json_path, suspect_hash) ==
    LET f == jsonFiles[json_path]
        img == LocateImage(json_path, f.doc)
        ch == _compute_image_phash(img)
        d == _hamming64(suspect_hash, ch.h)
    IN  IF best.exc # "" \/ ~f.ok THEN best
        ELSE IF f.doc.top \notin {"obj", "empty_obj"} THEN [best EXCEPT !.exc = "AttributeError"]
        ELSE IF img = NoPath \/ ~ch.ok THEN best
        ELSE IF d < best.dist THEN [json |-> json_path, meta |-> f.doc, dist |-> d, exc |-> ""]
        ELSE best

RECURSIVE Walk(_, _, _, _)
Walk(order, i, suspect_hash, best) ==
    IF i > Len(order) THEN best
    ELSE Walk(order, i + 1, suspect_hash, StepCandidate(best, order[i], suspect_hash))

\* A variant with an exclusive threshold
_find_best_below(simg, order, max_ham) ==
    LET best == Walk(order, 1, _phash64_from_pil(simg), NoBest)
    IN  IF best.exc # "" THEN best
        ELSE IF best.json # NoPath /\ best.dist < max_ham THEN best
        ELSE NoBest

\* _find_best_sideinfo_for_suspect: (best_json, best_meta), or (None, None)
_find_best_sideinfo_for_suspect(simg, order, max_ham) ==
    LET best == Walk(order, 1, _phash64_from_pil(simg), NoBest)
    IN  IF best.exc # "" THEN best
        ELSE IF best.json # NoPath /\ best.dist <= max_ham THEN best
        ELSE NoBest

\* ---------------------------------------------------- side-info resolution

\* A side-info reference is a string; what it resolves to depends on what is
\* at the three places it may name.  p is the path when it names a file the
\* service wrote; local, http and fetch say what the other places hold.
MkRef(p, local, ldoc, url, http, hdoc, fetch, fdoc) ==
    [p |-> p, local |-> local, ldoc |-> ldoc, url |-> url, http |-> http, hdoc |-> hdoc,
     fetch |-> fetch, fdoc |-> fdoc]

Unresolved == [meta |-> NullDoc, used |-> NoLocator]

\* _resolve_sideinfo(ref): (meta, sideinfo_used), with NullDoc for None
_resolve_sideinfo(ref) ==
    CASE ref.p # NoPath /\ Exists(ref.p) ->
             IF ref.p \in DOMAIN jsonFiles /\ jsonFiles[ref.p].ok
             THEN [meta |-> jsonFiles[ref.p].doc, used |-> Locator("path", ref.p)]
             ELSE Unresolved
      [] ref.local = "unparsable" -> Unresolved
      [] ref.local = "doc" -> [meta |-> ref.ldoc, used |-> Locator("path", NoPath)]
      [] ref.url ->
             IF ref.http = "ok" THEN [meta |-> ref.hdoc, used |-> Locator("url", NoPath)]
             ELSE Unresolved
      [] sideinfo_fetcher # "none" /\ ref.fetch = "dict" ->
             [meta |-> ref.fdoc, used |-> Locator("db", NoPath)]
      [] OTHER -> Unresolved

\* _extract_from_suspect(suspect_path, None, out_path): the pHash branch.
\* order is the order in which glob lists the catalog.
_extract_from_suspect(simg, order) ==
    LET auto == _find_best_sideinfo_for_suspect(simg, order, phash_hamming_threshold)
        meta == auto.meta
        err == ReadKeys(meta)
        used == Locator("path", auto.json)
    IN  CASE auto.exc # "" -> Raise(auto.exc)
          [] auto.json = NoPath \/ ~Exists(auto.json) -> Skip("skip_no_sideinfo", "no_wm_json")
          [] err = "missing_key" -> Skip("skip_bad_meta", "missing_key")
          [] err = "unreadable" -> Skip("skip_bad_meta", "unreadable")
          [] HasB64(meta) ->
                 IF B64Decodes(meta.image_base64)
                 THEN ExtractCore(simg, meta, meta.image_base64.b64.img, "base64_data", used)
                 ELSE Skip("skip_bad_meta", "image_open_failed")
          [] HasPath(meta) ->
                 IF ~Exists(meta.path.p)
                 THEN Skip("skip_bad_meta", "logo_path_invalid")
                 ELSE IF ~(meta.path.p \in DOMAIN imgFiles /\ imgFiles[meta.path.p].ok)
                 THEN Skip("skip_bad_meta", "image_open_failed")
                 ELSE ExtractCore(simg, meta, imgFiles[meta.path.p], "path", used)
          [] OTHER -> Skip("skip_bad_meta", "missing_wm_ref")

\* ------------------------------------------------------------------ inputs

\* Files that exist before the service starts: a mark logo and a corrupt one.
LogoPath == MkPath("logos", 0, <<"png">>)

BadLogoPath == MkPath("logos", 0, <<"bad", "png">>)

MissingLogoPath == MkPath("logos", 0, <<"gone", "png">>)

MarkImg == MkImg(256, 256, "RGB", Hex12)

Host256 == MkImg(256, 256, "RGB", HexZero)

HostOdd == MkImg(5, 3, "RGBA", HexZero)

\* a suspect that is no output of embed
GoodSuspect == B64Of(MkImg(256, 256, "RGB", HexZero))

ForeignImgs == {MkImg(256, 256, "RGB", HexZero), MkImg(3, 5, "RGB", Hex13),
                MkImg(256, 256, "RGBA", HexZero)}

BadB64s == {B64NotImage, B64BadBase64}

\* alpha arguments of embed: None, or tenths
AlphaNone == [given |-> FALSE, n |-> 0]

AlphaArg(n) == [given |-> TRUE, n |-> n]

\* The embed calls tried.  ph is the pHash of the pixels the transform produces
\* for these inputs (the transform is not computed).
EmbedCase(host, mark, alphaArg, output_dir, ph) ==
    [host |-> host, mark |-> mark, alphaArg |-> alphaArg, output_dir |-> output_dir, ph |-> ph]

EmbedCases ==
    {EmbedCase(B64Of(Host256), B64Of(MarkImg), AlphaNone, CatalogDir, Hex13),
     EmbedCase(B64Of(Host256), B64Of(MarkImg), AlphaArg(6), CatalogDir, Hex12),
     EmbedCase(B64Of(HostOdd), B64Of(MarkImg), AlphaArg(10), CatalogDir, HexZero),
     EmbedCase(B64Of(Host256), B64Of(MarkImg), AlphaArg(15), CustomDir, HexZero),
     EmbedCase(B64Of(Host256), B64Of(MarkImg), AlphaArg(0), CustomDir, Hex12),
     EmbedCase(B64NotImage, B64Of(MarkImg), AlphaNone, CatalogDir, HexZero),
     EmbedCase(B64Of(Host256), B64BadBase64, AlphaNone, CatalogDir, HexZero)}

\* A well-formed side-info document with the mark inline
BaseDoc ==
    MkDoc(AlphaNum(6), WaveletStr("haar"), SizeList(<<256, 256>>), PathAbsent, <<128, 128>>,
          SFlat(128), SFlat(128), SFlat(128), B64Str(B64Of(MarkImg)), PathAbsent, <<>>)

\* BaseDoc with one thing changed
DocVariants ==
    {ListDoc, EmptyObjDoc}
    \cup {[BaseDoc EXCEPT !.wm_params = x] : x \in {"absent", "str"}}
    \cup {[BaseDoc EXCEPT !.alpha = x] :
            x \in {AlphaOther("absent"), AlphaOther("str"), AlphaOther("null"),
                   AlphaNumStr(6), AlphaNum(0), AlphaNum(-5), AlphaNum(10), AlphaNum(15)}}
    \cup {[BaseDoc EXCEPT !.wavelet = x] :
            x \in {WaveletOther("absent"), WaveletOther("num"), WaveletStr("foo"),
                   WaveletStr("db1")}}
    \cup {[BaseDoc EXCEPT !.canonical_size = x] :
            x \in {SizeOther("absent"), SizeOther("null"), SizeOther("num"),
                   SizeOther("floats"), SizeList(<<256>>), SizeList(<<0, 256>>),
                   SizeList(<<0, 0>>), SizeList(<<5, 3>>), SizeList(<<-1, 256>>)}}
    \cup {[BaseDoc EXCEPT !.host_S = x] : x \in {"absent", "list"}}
    \cup {[BaseDoc EXCEPT !.S["R"] = x] :
            x \in {SOther("absent"), SOther("strs"), SOther("nested"), SOther("scalar"),
                   SFlat(0), SFlat(127), SFlat(200)}}
    \cup {[BaseDoc EXCEPT !.S["G"] = x] : x \in {SOther("absent"), SOther("scalar"), SFlat(0)}}
    \cup {[BaseDoc EXCEPT !.S["R"] = SFlat(0), !.S["G"] = SFlat(0), !.S["B"] = SFlat(0)],
          [BaseDoc EXCEPT !.S["R"] = SFlat(0), !.canonical_size = SizeList(<<5, 3>>)]}
    \cup {[BaseDoc EXCEPT !.watermark_ref = x] : x \in {"absent", "null", "str"}}
    \cup {[BaseDoc EXCEPT !.image_base64 = x] :
            x \in {B64Other("absent"), B64Other("num"), B64Str(B64NotImage)}}
    \cup {[BaseDoc EXCEPT !.image_base64 = B64Other("absent"), !.path = PathStr(x)] :
            x \in {LogoPath, BadLogoPath, MissingLogoPath}}

TestDocs == {BaseDoc} \cup DocVariants

\* References that name no file the service wrote
StaticRefs ==
    {MkRef(NoPath, "missing", NullDoc, FALSE, "fail", NullDoc, f, BaseDoc) :
        f \in {"raise", "nondict", "dict"}}
    \cup {MkRef(NoPath, "unparsable", NullDoc, FALSE, "fail", NullDoc, f, BaseDoc) :
        f \in {"raise", "dict"}}
    \cup {MkRef(NoPath, "doc", d, FALSE, "fail", NullDoc, "raise", BaseDoc) :
        d \in {BaseDoc, NullDoc, ListDoc, [BaseDoc EXCEPT !.alpha = AlphaOther("str")]}}
    \cup {MkRef(NoPath, "missing", NullDoc, TRUE, "fail", NullDoc, f, BaseDoc) :
        f \in {"raise", "dict"}}
    \cup {MkRef(NoPath, "missing", NullDoc, TRUE, "ok", d, "raise", BaseDoc) :
        d \in {BaseDoc, NullDoc}}

\* A reference that is the path of a file
FileRef(p) == MkRef(p, "missing", NullDoc, FALSE, "fail", NullDoc, "raise", BaseDoc)

NoRef == FileRef(NoPath)

\* ----------------------------------------------------------------- detect

\* A grayscale image as detect reads it: its pixels, flattened
GrayImgs == {<<0, 0, 0>>, <<0, 8, 20>>, <<20, 12, 0>>, <<0, 20, 8>>, <<20, 20, 0>>}

\* A detect payload: an image, or a string that is no image, or None
GrayB64(px) == [k |-> "image", px |-> px]

GrayBad(k) == [k |-> k, px |-> <<>>]

RECURSIVE SumSeq(_, _)
SumSeq(x, i) == IF i > Len(x) THEN 0 ELSE x[i] + SumSeq(x, i + 1)

RECURSIVE Dot(_, _, _)
Dot(x, y, i) == IF i > Len(x) THEN 0 ELSE x[i] * y[i] + Dot(x, y, i + 1)

\* A real number num / sqrt(den2), den2 > 0
Ratio(num, den2) == [num |-> num, den2 |-> den2]

\* q >= tau / 10
RatioGE(q, tau) ==
    LET l == 10 * q.num
        rsq == tau * tau * q.den2
    IN  IF tau >= 0 THEN l >= 0 /\ l * l >= rsq
        ELSE l >= 0 \/ l * l <= rsq

\* _pearson_correlation_coefficient: numerator / denominator, 0.0 when the
\* denominator is 0 (both scaled by the pixel count)
_pearson_correlation_coefficient(x, y) ==
    LET n == Len(x)
        numerator == n * Dot(x, y, 1) - SumSeq(x, 1) * SumSeq(y, 1)
        sx == n * Dot(x, x, 1) - SumSeq(x, 1) * SumSeq(x, 1)
        sy == n * Dot(y, y, 1) - SumSeq(y, 1) * SumSeq(y, 1)
    IN  IF sx * sy # 0 THEN Ratio(numerator, sx * sy) ELSE Ratio(0, 1)

\* (img1 - img2) ** 2 on uint8 arrays: both operations wrap modulo 256
RECURSIVE SqDiffU8(_, _, _)
SqDiffU8(x, y, i) ==
    IF i > Len(x) THEN 0
    ELSE ((((x[i] - y[i]) % 256) * ((x[i] - y[i]) % 256)) % 256) + SqDiffU8(x, y, i + 1)

\* _mean_squared_error: the sum, to be divided by the pixel count
_mean_squared_error(x, y) == [sum |-> SqDiffU8(x, y, 1), n |-> Len(x)]

\* _compute_metrics(original, extracted)
_compute_metrics(x, y) ==
    LET pcc_val == _pearson_correlation_coefficient(x, y)
        mse_val == _mean_squared_error(x, y)
    IN  [pcc |-> pcc_val,
         pcc_abs |-> Ratio(Abs(pcc_val.num), pcc_val.den2),
         mse |-> mse_val,
         psnr_inf |-> mse_val.sum = 0]

_is_match_signed(metrics, pcc_threshold, use_abs) == RatioGE(metrics.pcc, pcc_threshold)

\* _is_match(metrics, pcc_threshold, use_abs)
_is_match(metrics, pcc_threshold, use_abs) ==
    RatioGE(IF use_abs THEN metrics.pcc_abs ELSE metrics.pcc, pcc_threshold)

NoMetrics == _compute_metrics(<<0>>, <<0>>)

NoDet ==
    [outcome |-> "return", exc |-> "", metrics |-> NoMetrics, is_match |-> FALSE,
     pcc_threshold |-> 0, used_absolute_pcc |-> FALSE, recorded |-> FALSE,
     save_record |-> FALSE, disk |-> "ok",
     original |-> GrayBad("none"), extracted |-> GrayBad("none"), chained |-> {}]

\* compare_watermarks_from_base64(original, extracted, pcc_threshold, save_record).
\* disk says whether the detections directory can be written ("ok") or a
\* makedirs, copy or JSON write in _save_detection_record fails ("full").
compare_watermarks_from_base64(original, extracted, tau, save_record, disk) ==
    LET pcc_threshold == IF tau.given THEN tau.n ELSE default_pcc_threshold
        metrics == _compute_metrics(original.px, extracted.px)
    IN  IF original.k # "image" \/ extracted.k # "image"
        THEN [NoDet EXCEPT !.outcome = "raise", !.exc = "ValueError",
                           !.save_record = save_record, !.disk = disk,
                           !.original = original, !.extracted = extracted]
        ELSE IF save_record /\ disk # "ok"
        THEN [NoDet EXCEPT !.outcome = "raise", !.exc = "OSError",
                           !.save_record = save_record, !.disk = disk,
                           !.original = original, !.extracted = extracted]
        ELSE [NoDet EXCEPT !.metrics = metrics,
                           !.save_record = save_record, !.disk = disk,
                           !.is_match = _is_match(metrics, pcc_threshold, TRUE),
                           !.pcc_threshold = pcc_threshold,
                           !.used_absolute_pcc = TRUE,
                           !.recorded = save_record,
                           !.original = original, !.extracted = extracted]

\* thresholds tried, in tenths; None takes the default
TauArgs == {[given |-> FALSE, n |-> 0], [given |-> TRUE, n |-> 0], [given |-> TRUE, n |-> 5],
            [given |-> TRUE, n |-> 10], [given |-> TRUE, n |-> 12], [given |-> TRUE, n |-> -3]}

\* ------------------------------------------------------------------ state

EmptyMap == [x \in {} |-> x]

NoEmb ==
    [outcome |-> "return", exc |-> "", watermarked_image_b64 |-> B64NotImage,
     output_path |-> NoPath, metadata_path |-> NoPath, metadata |-> EmptyObjDoc,
     image_size |-> <<0, 0>>, unique_id |-> 0, host |-> B64NotImage, alpha |-> 0]

\* No embed call is between its writes.  Otherwise pc is "image_open" (line
\* 78 begun), "image_saved" (line 78 done) or "record_open" (line 106 done) and plan is its EmbedPlan.
NoEmbedding == [pc |-> "idle"]

\* No handler ran: the call was made on the service itself.  Otherwise the
\* status code and the fields of the JSON body that jsonify was given, with
\* the blueprint of the handler (route) and, for a detect request, the kind of
\* value its pcc_threshold field had.
NoResponse ==
    [status_code |-> 0, success |-> FALSE, code |-> "", status |-> "", reason |-> "",
     proceed_to_embedding |-> FALSE, data |-> FALSE, route |-> "", pcc_threshold |-> "absent"]

\* ------------------------------------------------------- table watermarks

\* A str argument: None, or its characters
StrNone == [t |-> "none", s |-> <<>>]

Str(s) == [t |-> "str", s |-> s]

Whitespace == {" "}

\* str.lstrip() and str.rstrip() on the characters
RECURSIVE lstrip(_)
lstrip(s) == IF s # <<>> /\ Head(s) \in Whitespace THEN lstrip(Tail(s)) ELSE s

RECURSIVE rstrip(_)
rstrip(s) ==
    IF s # <<>> /\ s[Len(s)] \in Whitespace THEN rstrip(SubSeq(s, 1, Len(s) - 1)) ELSE s

\* A variant that trims the left end only
strip_left(s) == lstrip(s)

\* str.strip()
strip(s) == rstrip(lstrip(s))

\* `not x or not x.strip()` for an argument x
Blank(x) == x.t = "none" \/ strip(x.s) = <<>>

\* Watermark(watermark_id, store_name, watermark_url_image), or None
Watermark(watermark_id, store_name, watermark_url_image) ==
    [watermark_id |-> watermark_id, store_name |-> store_name,
     watermark_url_image |-> watermark_url_image]

NoWatermark == Watermark(0, <<>>, <<>>)

\* The row of a table (a function from id to Watermark) without the row of id k
Without(rows, k) == [i \in DOMAIN rows \ {k} |-> rows[i]]

\* What a call on WatermarkService did: its arguments, whether it raised, and
\* what it returned (a Watermark or None for create, get and update, a
\* boolean for delete)
NoWmCall ==
    [watermark_id |-> 0, store_name |-> StrNone, watermark_url_image |-> StrNone,
     outcome |-> "return", exc |-> "", ret |-> NoWatermark, deleted |-> FALSE]

\* A delete_watermark call of a concurrent request: not started ("idle"),
\* between its SELECT and its DELETE ("found"), or returned ("done")
NoDelete == [pc |-> "idle", watermark_id |-> 0, ret |-> FALSE]

Procs == 1..MaxProcs

NoDeletes == [p \in Procs |-> NoDelete]

\* last: op names the call; suspect, given, doc and ref are the arguments of an
\* extract call (doc is also the document a reference resolved to); resolved
\* and looked_up say which branch it took; res is what it returned; emb and
\* det are the results of embed and detect; best and max_ham are the result
\* and the threshold of a catalog lookup called on its own.
NoCall ==
    [op |-> "none", suspect |-> B64NotImage, given |-> FALSE, doc |-> NullDoc,
     ref |-> NoRef, resolved |-> "n/a", looked_up |-> FALSE, res |-> NoResult,
     extracted_image_b64 |-> FALSE, unique_id |-> 0, emb |-> NoEmb, det |-> NoDet,
     best |-> NoBest, max_ham |-> 0, during |-> "idle", tmp |-> {}, wm |-> NoWmCall, low |-> <<>>, hash |-> HexZero]

Init ==
    /\ imgFiles = (LogoPath :> MarkImg) @@ (BadLogoPath :> BadImg)
    /\ jsonFiles = EmptyMap
    /\ extractedFiles = {}
    /\ nextUid = 1
    /\ sideinfo_fetcher \in {"none", "set"}
    /\ embedding = NoEmbedding
    /\ response = NoResponse
    /\ watermarks = EmptyMap
    /\ next_watermark_id = 1
    /\ deletes = NoDeletes
    /\ last = NoCall

\* ------------------------------------------------------------------ embed

\* What embed_watermark_from_base64(original, watermark, alpha, output_dir)
\* computes before it writes: the image, the two paths, the record, the result
\* it returns, or the exception of a failed decode.  ph is the pHash of the
\* pixels the transform produces.
EmbedPlan(original_image_b64, watermark_image_b64, alphaArg, output_dir, ph, unique_id) ==
    LET alpha == IF alphaArg.given THEN alphaArg.n ELSE DefaultAlpha
        original_image == _decode_base64_to_pil(original_image_b64)
        watermark_image == _decode_base64_to_pil(watermark_image_b64)
        w == original_image.img.w
        h == original_image.img.h
        LL_shape == <<CeilHalf(h), CeilHalf(w)>>
        S_len == Min2(LL_shape[1], LL_shape[2])
        watermarked_rgb == MkImg(2 * LL_shape[2], 2 * LL_shape[1], "RGB", ph)
        out_path == MkPath(output_dir, unique_id, <<"jpg">>)
        meta == MkDoc(AlphaNum(alpha), WaveletStr("haar"),
                      SizeList(<<watermarked_rgb.w, watermarked_rgb.h>>), PathStr(out_path),
                      LL_shape, SFlat(S_len), SFlat(S_len), SFlat(S_len),
                      B64Other("absent"), PathAbsent, <<w, h>>)
        meta_path == AddExt(SplitextStem(out_path), <<"wm", "json">>)
        failed == IF original_image.outcome = "raise" THEN original_image.exc
                  ELSE IF watermark_image.outcome = "raise" THEN watermark_image.exc
                  ELSE ""
    IN  [failed |-> failed, watermarked_rgb |-> watermarked_rgb, out_path |-> out_path,
         meta |-> meta, meta_path |-> meta_path,
         raised |-> [NoEmb EXCEPT !.outcome = "raise", !.exc = failed,
                                  !.host = original_image_b64],
         returned |-> [NoEmb EXCEPT !.watermarked_image_b64 = B64Of(watermarked_rgb),
                                    !.output_path = out_path,
                                    !.metadata_path = meta_path,
                                    !.metadata = meta,
                                    !.image_size = <<watermarked_rgb.w, watermarked_rgb.h>>,
                                    !.unique_id = unique_id,
                                    !.host = original_image_b64,
                                    !.alpha = alpha]]

\* EmbeddedService.embed_watermark_from_base64 as one step
embed_watermark_from_base64(original_image_b64, watermark_image_b64, alphaArg, output_dir, ph) ==
    LET plan == EmbedPlan(original_image_b64, watermark_image_b64, alphaArg, output_dir, ph,
                          nextUid)
    IN  IF plan.failed # ""
        THEN /\ last' = [NoCall EXCEPT !.op = "embed", !.emb = plan.raised]
             /\ UNCHANGED <<imgFiles, jsonFiles, extractedFiles, nextUid, sideinfo_fetcher, embedding>>
        ELSE /\ nextUid <= MaxUid
             /\ imgFiles' = (plan.out_path :> plan.watermarked_rgb) @@ imgFiles
             /\ jsonFiles' = (plan.meta_path :> [ok |-> TRUE, doc |-> plan.meta]) @@ jsonFiles
             /\ nextUid' = nextUid + 1
             /\ last' = [NoCall EXCEPT !.op = "embed", !.emb = plan.returned]
             /\ UNCHANGED <<extractedFiles, sideinfo_fetcher, embedding>>

Embed ==
    /\ \E c \in EmbedCases :
           embed_watermark_from_base64(c.host, c.mark, c.alphaArg, c.output_dir, c.ph)
    /\ UNCHANGED <<response, dbVars>>

\* ---------------------------------------------------------------- extract

\* The suspects tried: any image, the image of any file on disk, and junk
Published == {p \in DOMAIN imgFiles : p.dir \in {CatalogDir, CustomDir}}

Suspects == {B64Of(i) : i \in ForeignImgs} \cup {B64Of(imgFiles[p]) : p \in Published} \cup BadB64s

\* What mkdtemp and the save of the suspect made: a directory with one file
TempEntries == {"temp_dir", "suspect"}

\* The end of the three public extract methods, lines 65-79: the result in last.
\* Lines 65-70 remove the temporary file and directory; a call whose
\* extraction raised does not reach them.
Finish(op, suspect, given, doc, ref, resolved, looked_up, result) ==
    LET unique_id == nextUid
        written == result.outcome = "return" /\ result.wrote
    IN  /\ nextUid <= MaxUid
        /\ nextUid' = nextUid + 1
        /\ extractedFiles' = IF written THEN extractedFiles \cup {unique_id} ELSE extractedFiles
        /\ last' = [NoCall EXCEPT !.op = op, !.suspect = suspect, !.given = given,
                                  !.doc = doc, !.ref = ref, !.resolved = resolved,
                                  !.looked_up = looked_up, !.res = result,
                                  !.tmp = IF result.outcome = "return" THEN {} ELSE TempEntries,
                                  !.extracted_image_b64 =
                                      result.outcome = "return" /\ result.status = "ok_extracted"
                                      /\ unique_id \in extractedFiles',
                                  !.unique_id =
                                      IF result.outcome = "return" /\ result.status = "ok_extracted"
                                         /\ unique_id \in extractedFiles'
                                      THEN unique_id ELSE 0]
        /\ UNCHANGED <<imgFiles, jsonFiles, sideinfo_fetcher, embedding>>

\* Lines 37-43: the suspect is decoded and saved as JPEG before anything else
SuspectFails(suspect) ==
    LET dec == _decode_base64_to_pil(suspect)
    IN  IF dec.outcome = "raise" THEN dec.exc
        ELSE IF dec.img.mode # "RGB" THEN "OSError"
        ELSE ""

\* A call that ends at line 38 or at line 43: before mkdtemp, or after it with
\* the directory made and nothing to remove it
Aborted(op, suspect, given, doc, ref, exc) ==
    /\ last' = [NoCall EXCEPT !.op = op, !.suspect = suspect, !.given = given, !.doc = doc,
                              !.ref = ref, !.res = Raise(exc),
                              !.tmp = IF _decode_base64_to_pil(suspect).outcome = "raise"
                                      THEN {} ELSE {"temp_dir"}]
    /\ UNCHANGED <<imgFiles, jsonFiles, extractedFiles, nextUid, sideinfo_fetcher, embedding>>

\* A variant that falls back to the catalog lookup when the reference does not
\* resolve
extract_with_fallback(suspect, given, ref, order) ==
    LET simg == _decode_base64_to_pil(suspect).img
        rs == _resolve_sideinfo(ref)
        failed == SuspectFails(suspect)
    IN  IF failed # "" THEN Aborted("extract_path", suspect, given, NullDoc, ref, failed)
        ELSE IF given /\ rs.meta.top # "null"
        THEN Finish("extract_path", suspect, given, rs.meta, ref, "ok", FALSE,
                    _extract_from_suspect_with_meta(simg, rs.meta, rs.used))
        ELSE Finish("extract_path", suspect, given, NullDoc, ref, "fail", TRUE,
                    _extract_from_suspect(simg, order))

\* ExtractService.extract_watermark_from_base64(suspect, sideinfo_json_path)
extract_watermark_from_base64(suspect, given, ref, order) ==
    LET simg == _decode_base64_to_pil(suspect).img
        rs == _resolve_sideinfo(ref)
        failed == SuspectFails(suspect)
    IN  IF failed # "" THEN Aborted("extract_path", suspect, given, NullDoc, ref, failed)
        ELSE IF given
        THEN IF rs.meta.top = "null"
             THEN Finish("extract_path", suspect, given, NullDoc, ref, "fail", FALSE,
                         Skip("skip_bad_meta", "not_found_invalid"))
             ELSE Finish("extract_path", suspect, given, rs.meta, ref, "ok", FALSE,
                         _extract_from_suspect_with_meta(simg, rs.meta, rs.used))
        ELSE Finish("extract_path", suspect, given, NullDoc, ref, "n/a", TRUE,
                    _extract_from_suspect(simg, order))

\* ExtractService.extract_watermark_from_base64_with_json(suspect, sideinfo_json)
extract_watermark_from_base64_with_json(suspect, sideinfo_json, order) ==
    LET simg == _decode_base64_to_pil(suspect).img
        failed == SuspectFails(suspect)
        given == Truthy(sideinfo_json)
    IN  IF failed # "" THEN Aborted("extract_json", suspect, given, sideinfo_json, NoRef, failed)
        ELSE IF given
        THEN Finish("extract_json", suspect, given, sideinfo_json, NoRef, "n/a", FALSE,
                    _extract_from_suspect_with_meta(simg, sideinfo_json,
                                                    Locator("provided_json", NoPath)))
        ELSE Finish("extract_json", suspect, given, sideinfo_json, NoRef, "n/a", TRUE,
                    _extract_from_suspect(simg, order))

CatalogOrders == Orders(GlobWmJson(CatalogDir))

\* every suspect with the files the service wrote, one suspect with the rest
ExtractWithRef ==
    \E suspect \in Suspects,
       ref \in StaticRefs \cup {FileRef(p) : p \in DOMAIN jsonFiles} :
        /\ suspect = GoodSuspect \/ ref \notin StaticRefs
        /\ extract_watermark_from_base64(suspect, TRUE, ref, <<>>)
        /\ UNCHANGED <<response, dbVars>>

ExtractNoRef ==
    \E suspect \in Suspects, order \in CatalogOrders :
        /\ extract_watermark_from_base64(suspect, FALSE, NoRef, order)
        /\ UNCHANGED <<response, dbVars>>

\* every suspect with BaseDoc and the documents embed wrote, two suspects with
\* the variants of BaseDoc
ExtractWithJson ==
    \E suspect \in Suspects,
       doc \in TestDocs \cup {NullDoc} \cup {jsonFiles[p].doc : p \in DOMAIN jsonFiles},
       order \in CatalogOrders :
        /\ suspect \in {GoodSuspect, B64Of(MkImg(3, 5, "RGB", Hex13))} \/ doc \notin DocVariants
        /\ Truthy(doc) => order = CHOOSE o \in CatalogOrders : TRUE
        /\ extract_watermark_from_base64_with_json(suspect, doc, order)
        /\ UNCHANGED <<response, dbVars>>

\* ----------------------------------------------------------------- detect

\* Whether extract call c was given the side-info an embed emitted, unchanged,
\* with the watermarked image that embed returned
EmittedFor(c) ==
    {jp \in DOMAIN jsonFiles :
        LET d == jsonFiles[jp].doc
        IN  /\ d.output_path.p \in DOMAIN imgFiles
            /\ c.suspect = B64Of(imgFiles[d.output_path.p])
            /\ \/ c.op = "extract_json" /\ c.doc = d
               \/ c.op = "extract_path" /\ c.given /\ c.ref = FileRef(jp)}

\* The end of compare_watermarks_from_base64: the result in last.  The finally
\* clause of lines 88-93 removes the temporary directory on every way out.
DetectDone(det) ==
    /\ last' = [NoCall EXCEPT !.op = "detect", !.det = det, !.tmp = {}]
    /\ UNCHANGED <<imgFiles, jsonFiles, extractedFiles, nextUid, sideinfo_fetcher, embedding>>

\* detect on two payloads of the caller
DetectOver(imgs, taus, saves) ==
    \E original \in {GrayB64(x) : x \in imgs} \cup {GrayBad("not_image")},
       extracted \in {GrayB64(x) : x \in imgs} \cup {GrayBad("none")},
       tau \in taus, save_record \in saves, disk \in {"ok", "full"} :
        /\ save_record => ~tau.given
        /\ disk = "full" => save_record
        /\ DetectDone(compare_watermarks_from_base64(original, extracted, tau, save_record, disk))
        /\ UNCHANGED <<response, dbVars>>

Detect == DetectOver({<<0, 8, 20>>, <<20, 12, 0>>}, {AlphaNone, AlphaArg(10)}, {FALSE})

\* detect on the mark and on what the extract call before it returned: its
\* extracted_image_b64 (pixels not modelled: any image), or None without one
DetectExtracted ==
    /\ last.op \in {"extract_path", "extract_json"}
    /\ last.res.outcome = "return"
    /\ \E original \in {GrayB64(<<0, 8, 20>>)}, tau \in {AlphaNone},
          extracted \in IF last.extracted_image_b64 THEN {GrayB64(x) : x \in GrayImgs}
                        ELSE {GrayBad("none")} :
           DetectDone([compare_watermarks_from_base64(original, extracted, tau, FALSE, "ok")
                       EXCEPT !.chained = EmittedFor(last)])
    /\ UNCHANGED <<response, dbVars>>

Next ==
    \/ Embed
    \/ ExtractWithRef
    \/ ExtractNoRef
    \/ ExtractWithJson
    \/ Detect
    \/ DetectExtracted

Spec == Init /\ [][Next]_vars

\* ------------------------------------------------------------------ detect alone

\* every pair of GrayImgs under every threshold of TauArgs
DetectSweep == DetectOver(GrayImgs, TauArgs, BOOLEAN)

SpecDetect == Init /\ [][DetectSweep]_vars

\* ------------------------------------------- properties of embed and extract

ExtractOps == {"extract_path", "extract_json"}

\* An extract call that got past the decoding and saving of its suspect
Ran(c) == c.op \in ExtractOps /\ SuspectFails(c.suspect) = ""

Returned(c, status) == c.res.outcome = "return" /\ c.res.status = status

\* alpha in (0, 1], in tenths
AlphaInRange(a) == a.t = "num" /\ a.n \in 1..10

\* C1: an extract call that is given the side-info record an embed with alpha in
\* (0,1] emitted, unchanged, and the watermarked image of that embed, returns
\* ok_extracted.
C1_EmittedSideInfoExtracts ==
    (\E jp \in EmittedFor(last) : AlphaInRange(jsonFiles[jp].doc.alpha))
        => Returned(last, "ok_extracted")

\* The record of a 256x256 host embedded with alpha 0.6
IsS1Record(jp) ==
    /\ jp \in DOMAIN jsonFiles
    /\ jsonFiles[jp].doc.alpha = AlphaNum(6)
    /\ jsonFiles[jp].doc.resized_to = <<256, 256>>

\* C2: detect on the mark and on what extract returned for the side-info and the
\* image of an embed of a 256x256 host with alpha 0.6 returns is_match = true.
C2_RoundTripMatches ==
    (last.op = "detect" /\ \E jp \in last.det.chained : IsS1Record(jp))
        => last.det.outcome = "return" /\ last.det.is_match

\* Exactly one of image_base64 and path is in the watermark_ref of a document
OneMarkLocator(doc) == HasB64(doc) # HasPath(doc)

\* C3: every side-info record on disk, and every one embed returns, has a
\* watermark_ref with exactly one of image_base64 and path.
C3_WatermarkRefHasOneLocator ==
    /\ \A jp \in DOMAIN jsonFiles : OneMarkLocator(jsonFiles[jp].doc)
    /\ (last.op = "embed" /\ last.emb.outcome = "return") => OneMarkLocator(last.emb.metadata)

\* A document that is no object, lacks a mandatory key, has a value of the
\* wrong JSON type, a canonical_size that is no pair of integers, or a host_S
\* entry that is no flat list of numbers
Misshapen(doc) ==
    \/ doc.top = "list"
    \/ /\ doc.top = "obj"
       /\ \/ doc.wm_params # "obj"
          \/ doc.alpha.t # "num"
          \/ doc.wavelet.t # "str"
          \/ doc.canonical_size.t \notin {"list", "absent"}
          \/ doc.canonical_size.t = "list" /\ Len(doc.canonical_size.v) # 2
          \/ doc.host_S # "obj"
          \/ \E c \in {"R", "G", "B"} : doc.S[c].t # "flat"
          \/ doc.watermark_ref # "obj"

\* C4: an extract call on a decodable suspect with a misshapen side-info
\* document, supplied or resolved, returns a skip_* result and does not raise.
C4_MisshapenSideInfoSkips ==
    (Ran(last) /\ Misshapen(last.doc))
        => Returned(last, "skip_bad_meta") \/ Returned(last, "skip_no_sideinfo")

\* None of the three forms of reference ref yields a record: no parsable file
\* at the path, no document at the URL, no fetcher that returns one
CannotResolve(ref) ==
    /\ ~(ref.p \in DOMAIN jsonFiles /\ jsonFiles[ref.p].ok /\ jsonFiles[ref.p].doc.top # "null")
    /\ ~(ref.local = "doc" /\ ref.ldoc.top # "null")
    /\ ~(ref.url /\ ref.http = "ok" /\ ref.hdoc.top # "null")
    /\ ~(sideinfo_fetcher = "set" /\ ref.fetch = "dict")

UnresolvedCall == last.op = "extract_path" /\ last.given /\ Ran(last) /\ CannotResolve(last.ref)

\* C5: an extract call on a decodable suspect with a reference that cannot be
\* resolved returns skip_bad_meta with a reason, does not look the suspect up in
\* the catalog, and writes no extracted mark.
C5_UnresolvedReferenceIsBadMeta ==
    UnresolvedCall =>
        /\ Returned(last, "skip_bad_meta")
        /\ last.res.reason # ""
        /\ ~last.looked_up
        /\ ~last.res.wrote
        /\ (nextUid - 1) \notin extractedFiles

\* a URL whose fetch failed, given to a service that has a fetcher
C5_Witness ==
    /\ UnresolvedCall
    /\ last.ref.url
    /\ sideinfo_fetcher = "set"
    /\ last.res.status = "skip_bad_meta"

\* No reference and no document came with the call: None, "" or {}
NoRefSupplied(c) ==
    IF c.op = "extract_path" THEN ~c.given ELSE c.doc.top \in {"null", "empty_obj"}

\* The catalog records whose published image is found and can be hashed
HashableCandidates ==
    {jp \in GlobWmJson(CatalogDir) :
        /\ jsonFiles[jp].ok
        /\ LocateImage(jp, jsonFiles[jp].doc) # NoPath
        /\ _compute_image_phash(LocateImage(jp, jsonFiles[jp].doc)).ok}

DistanceTo(simg, jp) ==
    _hamming64(simg.ph, _compute_image_phash(LocateImage(jp, jsonFiles[jp].doc)).h)

WithinThreshold(simg, max_ham) ==
    \E jp \in HashableCandidates : DistanceTo(simg, jp) <= max_ham

\* C6: an extract call on a decodable suspect returns skip_no_sideinfo exactly
\* when it was given no reference and no hashable catalog candidate is within
\* the Hamming threshold of the suspect.
C6_SkipNoSideinfoIff ==
    Ran(last) =>
        (Returned(last, "skip_no_sideinfo")
            <=> /\ NoRefSupplied(last)
                /\ ~WithinThreshold(last.suspect.img, phash_hamming_threshold))

\* a catalog that is not empty, with nothing close enough
C6_Witness ==
    /\ Ran(last)
    /\ Returned(last, "skip_no_sideinfo")
    /\ HashableCandidates # {}

\* What C7 lists: the suspect does not decode, the mark the side-info refers to
\* does not decode, alpha is no number in (0,1], the wavelet name is unknown
UndecodableSuspect(c) == _decode_base64_to_pil(c.suspect).outcome = "raise"

UndecodableMark(doc) ==
    \/ HasB64(doc) /\ ~B64Decodes(doc.image_base64)
    \/ ~HasB64(doc) /\ HasPath(doc) /\ doc.path.p \in DOMAIN imgFiles /\ ~imgFiles[doc.path.p].ok

InvalidAlpha(doc) == doc.alpha.t \in {"str", "null"} \/ (doc.alpha.t = "num" /\ doc.alpha.n \notin 1..10)

UnsupportedWavelet(doc) == doc.wavelet.t = "str" /\ doc.wavelet.s \notin SupportedWavelets

\* C7: an extract call whose suspect or mark image does not decode, or whose
\* side-info has an invalid alpha or an unsupported wavelet, returns
\* skip_bad_meta.
C7_InvalidInputsAreBadMeta ==
    (/\ last.op \in ExtractOps
     /\ \/ UndecodableSuspect(last)
        \/ /\ Ran(last)
           /\ last.doc.top = "obj"
           /\ last.doc.wm_params = "obj"
           /\ UndecodableMark(last.doc) \/ InvalidAlpha(last.doc) \/ UnsupportedWavelet(last.doc))
        => Returned(last, "skip_bad_meta")

\* The catalog records whose published image is the suspect of call c
CatalogRecordsOf(c) ==
    {jp \in GlobWmJson(CatalogDir) :
        LET d == jsonFiles[jp].doc
        IN  /\ d.output_path.p \in DOMAIN imgFiles
            /\ d.output_path.p.dir = CatalogDir
            /\ c.suspect = B64Of(imgFiles[d.output_path.p])}

\* C8: an extract call without reference on a watermarked image that embed wrote
\* to the catalog with its record returns ok_extracted, with that record's path
\* as sideinfo_used.
C8_AutoMatchExtracts ==
    (last.op = "extract_path" /\ ~last.given /\ CatalogRecordsOf(last) # {})
        => /\ Returned(last, "ok_extracted")
           /\ \E jp \in CatalogRecordsOf(last) : last.res.sideinfo_used = Locator("path", jp)

\* ------------------------------------------------------ the lookup alone

\* A catalog record is of one of these kinds: its JSON does not parse (its
\* image is there), its image is missing, its image is corrupt, its image has
\* hash ph at output_path, or output_path is absent and the image is found by
\* stem substitution.
CatKind(k, ph) == [k |-> k, ph |-> ph]

CatKinds ==
    {CatKind("unparsable", HexZero), CatKind("no_image", HexZero), CatKind("corrupt", HexZero),
     CatKind("image", Hex4), CatKind("image", Hex12), CatKind("image", Hex13),
     CatKind("stem", Hex12), CatKind("moved", Hex13), CatKind("bare", Hex13)}

CatJsonPath(i) == MkPath(CatalogDir, i, <<"wm", "json">>)

CatImgPath(i, kind) ==
    MkPath(CatalogDir, i, IF kind.k = "stem" THEN <<"wm", "jpg">> ELSE <<"jpg">>)

\* "moved" is a record of embed whose output_path names the directory the
\* catalog was copied from, "bare" one whose output_path was removed
CatDoc(i, kind) ==
    [BaseDoc EXCEPT !.output_path =
        IF kind.k \in {"stem", "bare"} THEN PathAbsent
        ELSE IF kind.k = "moved" THEN PathStr(MkPath(CustomDir, i, <<"jpg">>))
        ELSE PathStr(CatImgPath(i, kind))]

CatImg(kind) == IF kind.k = "corrupt" THEN BadImg ELSE MkImg(256, 256, "RGB", kind.ph)

\* The catalog directory holding records 1..Len(kinds) of the given kinds
InitLookup ==
    \E n \in 0..MaxCat : \E kinds \in [1..n -> CatKinds] :
        /\ jsonFiles = [jp \in {CatJsonPath(i) : i \in 1..n} |->
                          [ok |-> kinds[jp.uid].k # "unparsable", doc |-> CatDoc(jp.uid, kinds[jp.uid])]]
        /\ imgFiles = [ip \in {CatImgPath(i, kinds[i]) : i \in {j \in 1..n : kinds[j].k # "no_image"}} |->
                          CatImg(kinds[ip.uid])]
        /\ extractedFiles = {}
        /\ nextUid = n + 1
        /\ sideinfo_fetcher = "none"
        /\ embedding = NoEmbedding
        /\ response = NoResponse
        /\ watermarks = EmptyMap
        /\ next_watermark_id = 1
        /\ deletes = NoDeletes
        /\ last = NoCall

LookupSuspects == {MkImg(256, 256, "RGB", HexZero), MkImg(256, 256, "RGB", Hex13)}

\* Two of the orders in which glob may list the files: by name, up and down
RECURSIVE Ascending(_)
Ascending(S) ==
    IF S = {} THEN <<>>
    ELSE LET first == CHOOSE p \in S : \A q \in S : p.uid <= q.uid
         IN  <<first>> \o Ascending(S \ {first})

Descending(S) == [i \in 1..Cardinality(S) |-> Ascending(S)[Cardinality(S) + 1 - i]]

LookupOrders == {Ascending(GlobWmJson(CatalogDir)), Descending(GlobWmJson(CatalogDir))}

\* _find_best_sideinfo_for_suspect called with the default threshold and with 4
Lookup ==
    \E simg \in LookupSuspects, order \in LookupOrders, max_ham \in {phash_hamming_threshold, 4} :
        /\ last' = [NoCall EXCEPT !.op = "lookup", !.suspect = B64Of(simg), !.max_ham = max_ham,
                                  !.during = embedding.pc,
                                  !.best = _find_best_sideinfo_for_suspect(simg, order, max_ham)]
        /\ UNCHANGED <<imgFiles, jsonFiles, extractedFiles, nextUid, sideinfo_fetcher, embedding,
                       response, dbVars>>

SpecLookup == InitLookup /\ [][Lookup]_vars

Found == last.best.json # NoPath

\* C9: the lookup returns a record exactly when some hashable candidate is within
\* the threshold (inclusive), and the record it returns is a hashable candidate
\* of minimum distance, with its document.
C9_LookupReturnsNearestWithin ==
    last.op = "lookup" =>
        /\ Found <=> WithinThreshold(last.suspect.img, last.max_ham)
        /\ Found =>
            /\ last.best.json \in HashableCandidates
            /\ last.best.meta = jsonFiles[last.best.json].doc
            /\ \A jp \in HashableCandidates :
                   DistanceTo(last.suspect.img, last.best.json)
                       <= DistanceTo(last.suspect.img, jp)

\* the nearest of several candidates, at exactly the threshold, with a nearer
\* record that cannot be hashed
C9_Witness ==
    /\ last.op = "lookup"
    /\ Found
    /\ DistanceTo(last.suspect.img, last.best.json) = last.max_ham
    /\ Cardinality(HashableCandidates) >= 2
    /\ \E jp \in HashableCandidates : DistanceTo(last.suspect.img, jp) > last.max_ham
    /\ \E jp \in DOMAIN jsonFiles : ~jsonFiles[jp].ok

\* ------------------------------------------------------ properties of detect

\* |q| >= tau / 10, written without the absolute value
AbsAtLeast(q, tau) == RatioGE(q, tau) \/ RatioGE(Ratio(0 - q.num, q.den2), tau)

\* C10: detect's is_match is true exactly when |PCC| >= tau, equality included,
\* and every detect result has used_absolute_pcc = true.
C10_MatchIffAbsPccAtLeastTau ==
    (last.op = "detect" /\ last.det.outcome = "return") =>
        /\ last.det.is_match <=> AbsAtLeast(last.det.metrics.pcc, last.det.pcc_threshold)
        /\ last.det.used_absolute_pcc

\* a negative PCC of -1 under tau = 1.0: a match at equality
C10_Witness ==
    /\ last.op = "detect"
    /\ last.det.outcome = "return"
    /\ last.det.metrics.pcc.num < 0
    /\ last.det.pcc_threshold = 10
    /\ last.det.is_match

\* The sum of the squared differences of two pixel sequences, as integers
RECURSIVE SqDiffInt(_, _, _)
SqDiffInt(x, y, i) ==
    IF i > Len(x) THEN 0
    ELSE (x[i] - y[i]) * (x[i] - y[i]) + SqDiffInt(x, y, i + 1)

Detected == last.op = "detect" /\ last.det.outcome = "return"

\* C11: the mse detect reports is the mean of the squared differences of the
\* pixel values taken as integers, with no wrap-around modulo 256.
C11_MseIsMeanOfSquaredDifferences ==
    Detected =>
        /\ last.det.metrics.mse.sum = SqDiffInt(last.det.original.px, last.det.extracted.px, 1)
        /\ last.det.metrics.mse.n = Len(last.det.original.px)

Pcc1(q) == q.num > 0 /\ q.num * q.num = q.den2

\* C12: for two identical images, a constant one included, detect returns
\* mse = 0, psnr = +infinity and pcc = 1.
C12_IdenticalImagesCorrelateFully ==
    (Detected /\ last.det.original = last.det.extracted) =>
        /\ last.det.metrics.mse.sum = 0
        /\ last.det.metrics.psnr_inf
        /\ Pcc1(last.det.metrics.pcc)

\* C13: when save_record is requested and persisting the record fails, detect
\* still returns the metrics and the decision it returns without save_record.
C13_RecordFailureKeepsDecision ==
    (/\ last.op = "detect"
     /\ last.det.save_record
     /\ last.det.disk # "ok"
     /\ last.det.original.k = "image"
     /\ last.det.extracted.k = "image")
        => LET plain == compare_watermarks_from_base64(
                            last.det.original, last.det.extracted,
                            [given |-> FALSE, n |-> 0], FALSE, "ok")
           IN  /\ last.det.outcome = "return"
               /\ last.det.metrics = plain.metrics
               /\ last.det.is_match = plain.is_match

\* ------------------------------------------ embed, one file write at a time

\* Lines 18-78: decode, transform, draw the uuid; save() opens the image file,
\* which is no readable image until the encoder has written it
EmbedOpenImage ==
    \E c \in EmbedCases :
        LET plan == EmbedPlan(c.host, c.mark, c.alphaArg, c.output_dir, c.ph, nextUid)
        IN  /\ embedding.pc = "idle"
            /\ plan.failed = ""
            /\ nextUid <= MaxUid
            /\ imgFiles' = (plan.out_path :> [plan.watermarked_rgb EXCEPT !.ok = FALSE])
                                @@ imgFiles
            /\ nextUid' = nextUid + 1
            /\ embedding' = [pc |-> "image_open", plan |-> plan]
            /\ UNCHANGED <<jsonFiles, extractedFiles, sideinfo_fetcher, response, dbVars, last>>

\* Line 78: save() has written the image file
EmbedSaveImage ==
    /\ embedding.pc = "image_open"
    /\ imgFiles' = [imgFiles EXCEPT ![embedding.plan.out_path] = embedding.plan.watermarked_rgb]
    /\ embedding' = [embedding EXCEPT !.pc = "image_saved"]
    /\ UNCHANGED <<jsonFiles, extractedFiles, nextUid, sideinfo_fetcher, response, dbVars,
                   last>>

\* Line 106: open(meta_path, "w") creates the record file, still empty
EmbedOpenRecord ==
    /\ embedding.pc = "image_saved"
    /\ jsonFiles' = (embedding.plan.meta_path :> [ok |-> FALSE, doc |-> embedding.plan.meta])
                        @@ jsonFiles
    /\ embedding' = [embedding EXCEPT !.pc = "record_open"]
    /\ UNCHANGED <<imgFiles, extractedFiles, nextUid, sideinfo_fetcher, response, dbVars,
                   last>>

\* Lines 107-119: json.dump completes the record, the call returns
EmbedDumpRecord ==
    /\ embedding.pc = "record_open"
    /\ jsonFiles' = [jsonFiles EXCEPT ![embedding.plan.meta_path].ok = TRUE]
    /\ embedding' = NoEmbedding
    /\ last' = [NoCall EXCEPT !.op = "embed", !.emb = embedding.plan.returned]
    /\ UNCHANGED <<imgFiles, extractedFiles, nextUid, sideinfo_fetcher, response, dbVars>>

\* An embed in steps, with catalog lookups of another request between them
NextConc ==
    \/ EmbedOpenImage
    \/ EmbedSaveImage
    \/ EmbedOpenRecord
    \/ EmbedDumpRecord
    \/ Lookup

SpecConc == Init /\ [][NextConc]_vars

\* The record that belongs to a watermarked image: the same stem, .wm.json
RecordOf(p) == AddExt(SplitextStem(p), <<"wm", "json">>)

\* C14: whenever a watermarked image is in the output directory, a reader finds
\* its .wm.json record there too.
C14_NoImageWithoutRecord ==
    \A p \in Published : RecordOf(p) \in DOMAIN jsonFiles

\* Every record on disk is still there, unchanged, after the step
RecordsKept ==
    \A jp \in DOMAIN jsonFiles : jp \in DOMAIN jsonFiles' /\ jsonFiles'[jp] = jsonFiles[jp]

\* An embed that returns in this step wrote two files that were not there
EmbedIsFresh ==
    (last'.op = "embed" /\ last'.emb.outcome = "return" /\ nextUid' # nextUid) =>
        /\ last'.emb.output_path \notin DOMAIN imgFiles
        /\ last'.emb.metadata_path \notin DOMAIN jsonFiles
        /\ last'.emb.output_path \in DOMAIN imgFiles'
        /\ last'.emb.metadata_path \in DOMAIN jsonFiles'
        /\ \A jp \in DOMAIN jsonFiles :
               jsonFiles[jp].doc.output_path.p # last'.emb.output_path

\* C15: no embed, extract or detect call changes or removes a record that is on
\* disk, and every embed writes its image and its record under names no earlier
\* call used.
C15_RecordsAreImmutable == [][RecordsKept /\ EmbedIsFresh]_vars

\* a second embed has returned while the record of the first is on disk
C15_Witness ==
    /\ last.op = "embed"
    /\ last.emb.outcome = "return"
    /\ Cardinality(DOMAIN jsonFiles) = 2

\* C16: an embed with alpha <= 0 or alpha > 1 is rejected with an error and
\* leaves no watermarked image and no record.
C16_InvalidAlphaIsRejected ==
    /\ \A jp \in DOMAIN jsonFiles : AlphaInRange(jsonFiles[jp].doc.alpha)
    /\ (last.op = "embed" /\ last.emb.alpha \notin 1..10) => last.emb.outcome = "raise"

\* C17: the watermarked image has the host's width and height, odd ones
\* included, and the record's canonical_size is the host's size.
C17_CanonicalSizeIsHostSize ==
    (last.op = "embed" /\ last.emb.outcome = "return") =>
        LET host == last.emb.host.img
        IN  /\ last.emb.image_size = <<host.w, host.h>>
            /\ imgFiles[last.emb.output_path].w = host.w
            /\ imgFiles[last.emb.output_path].h = host.h
            /\ last.emb.metadata.canonical_size = SizeList(<<host.w, host.h>>)

\* A well-formed document whose host_S lists have any length and whose
\* canonical_size is any pair of positive integers
LengthCase(doc) ==
    /\ doc.top = "obj"
    /\ \A c \in {"R", "G", "B"} : doc.S[c].t = "flat"
    /\ ResizeOk(doc.canonical_size)
    /\ [doc EXCEPT !.S = BaseDoc.S, !.canonical_size = BaseDoc.canonical_size] = BaseDoc

\* C18: with otherwise valid side-info, extraction returns ok_extracted
\* whatever the length of each host_S list (shorter, longer or empty), for
\* even and odd canonical sizes, also when only some channels are empty.
C18_LengthGuardExtracts ==
    (Ran(last) /\ LengthCase(last.doc)) => Returned(last, "ok_extracted")

\* ---------------------------------------------------------- ImageController

\* A field of a JSON request body: absent, null, a number n (tenths), a
\* boolean, the empty string, a string of blanks, or a string with content v
JAbsent == [t |-> "absent", n |-> 0, v |-> FALSE]

JNull == [t |-> "null", n |-> 0, v |-> FALSE]

JNum(n) == [t |-> "num", n |-> n, v |-> FALSE]

JBool(b) == [t |-> "bool", n |-> IF b THEN 10 ELSE 0, v |-> b]

JEmptyStr == [t |-> "emptystr", n |-> 0, v |-> FALSE]

JBlankStr == [t |-> "blankstr", n |-> 0, v |-> FALSE]

JStr(v) == [t |-> "str", n |-> 0, v |-> v]

\* `not x or not isinstance(x, str)` for a field x
NotNonEmptyStr(x) == x.t \notin {"str", "blankstr"}

\* isinstance(x, (int, float)): numbers and booleans
IsNumber(x) == x.t \in {"num", "bool"}

ErrorResponse(status_code, code) ==
    [NoResponse EXCEPT !.status_code = status_code, !.code = code]

\* The except clauses of the three handlers
ExceptResponse(exc, code) ==
    IF exc = "ValueError" THEN ErrorResponse(400, "VALIDATION_ERROR")
    ELSE ErrorResponse(500, code)

\* A request that ended before the service was called
Rejected(r) ==
    /\ response' = r
    /\ last' = NoCall
    /\ UNCHANGED <<imgFiles, jsonFiles, extractedFiles, nextUid, sideinfo_fetcher, embedding>>

\* _validate_watermark_payload(data): the error response, or NoResponse for None
_validate_watermark_payload(data) ==
    CASE data.body = "empty" -> ErrorResponse(400, "MISSING_BODY")
      [] data.original_image.t = "absent" -> ErrorResponse(400, "MISSING_FIELD")
      [] data.watermark_image.t = "absent" -> ErrorResponse(400, "MISSING_FIELD")
      [] NotNonEmptyStr(data.original_image) -> ErrorResponse(400, "INVALID_IMAGE_DATA")
      [] NotNonEmptyStr(data.watermark_image) -> ErrorResponse(400, "INVALID_IMAGE_DATA")
      [] data.alpha.t # "absent"
           /\ (~IsNumber(data.alpha) \/ data.alpha.n <= 0 \/ data.alpha.n > 10) ->
             ErrorResponse(400, "INVALID_ALPHA")
      [] OTHER -> NoResponse

\* ImageController.embed_watermark on the request body data
embed_watermark(data, ph) ==
    LET validation_error == _validate_watermark_payload(data)
        Answer(r) == [r EXCEPT !.route = "images"]
        alpha == IF data.alpha.t = "absent" THEN 6 ELSE data.alpha.n
    IN  IF ~data.is_json THEN Rejected(Answer(ErrorResponse(400, "INVALID_CONTENT_TYPE")))
        ELSE IF validation_error # NoResponse THEN Rejected(Answer(validation_error))
        ELSE /\ embed_watermark_from_base64(data.original_image.v, data.watermark_image.v,
                                            AlphaArg(alpha), CatalogDir, ph)
             /\ response' =
                    Answer(IF last'.emb.outcome = "raise"
                           THEN ExceptResponse(last'.emb.exc, "WATERMARK_EMBED_ERROR")
                           ELSE [NoResponse EXCEPT !.status_code = 200, !.success = TRUE,
                                                   !.data = "embed"])

\* _validate_extract_payload(data)
_validate_extract_payload(data) ==
    CASE data.body = "empty" -> ErrorResponse(400, "MISSING_BODY")
      [] data.suspect_image.t = "absent" -> ErrorResponse(400, "MISSING_FIELD")
      [] NotNonEmptyStr(data.suspect_image) -> ErrorResponse(400, "INVALID_IMAGE_DATA")
      [] data.sideinfo_json_path.t \notin {"absent", "null", "str", "blankstr", "emptystr"} ->
             ErrorResponse(400, "INVALID_PATH")
      [] OTHER -> NoResponse

\* The keys of the dict an extract call returned
ResultKeys(call) ==
    IF call.res.status = "ok_extracted"
    THEN {"status", "alpha", "wavelet", "canonical_size", "sideinfo_used", "watermark_logo",
          "extracted_path"}
         \cup (IF call.extracted_image_b64 THEN {"extracted_image_b64", "unique_id"} ELSE {})
    ELSE {"status", "reason"}

\* Lines 240-287: the answer to the result of the extract service.  A key
\* read with result[...] that the dict lacks is a KeyError.
ExtractResponse(call) ==
    LET keys == ResultKeys(call)
    IN  CASE call.res.outcome = "raise" ->
                 ExceptResponse(call.res.exc, "WATERMARK_EXTRACT_ERROR")
          [] call.res.status = "ok_extracted" ->
                 IF {"alpha", "wavelet", "canonical_size", "sideinfo_used", "watermark_logo",
                     "extracted_path", "suspect_save_path"} \subseteq keys
                 THEN [NoResponse EXCEPT !.status_code = 200, !.success = TRUE,
                                         !.status = "extracted", !.data = "extraction"]
                 ELSE ExceptResponse("KeyError", "WATERMARK_EXTRACT_ERROR")
          [] call.res.status \in {"skip_no_sideinfo", "skip_bad_meta"} ->
                 IF {"reason", "suspect_save_path"} \subseteq keys
                 THEN [NoResponse EXCEPT !.status_code = 200, !.success = TRUE,
                                         !.status = "no_extraction",
                                         !.reason = call.res.reason,
                                         !.proceed_to_embedding = TRUE, !.data = "proceed"]
                 ELSE ExceptResponse("KeyError", "WATERMARK_EXTRACT_ERROR")
          [] OTHER -> ErrorResponse(500, "EXTRACTION_ERROR")

\* ImageController.extract_watermark on the request body data
extract_watermark(data, order) ==
    LET validation_error == _validate_extract_payload(data)
        Answer(r) == [r EXCEPT !.route = "images"]
        given == data.sideinfo_json_path.t = "str"
        sideinfo_json_path == IF given THEN data.sideinfo_json_path.v ELSE NoRef
    IN  IF ~data.is_json THEN Rejected(Answer(ErrorResponse(400, "INVALID_CONTENT_TYPE")))
        ELSE IF validation_error # NoResponse THEN Rejected(Answer(validation_error))
        ELSE /\ extract_watermark_from_base64(data.suspect_image.v, given, sideinfo_json_path,
                                              order)
             /\ response' = Answer(ExtractResponse(last'))

\* _validate_detect_payload(data)
_validate_detect_payload(data) ==
    CASE data.body = "empty" -> ErrorResponse(400, "MISSING_BODY")
      [] data.original_watermark.t = "absent" -> ErrorResponse(400, "MISSING_FIELD")
      [] data.extracted_watermark.t = "absent" -> ErrorResponse(400, "MISSING_FIELD")
      [] NotNonEmptyStr(data.original_watermark) -> ErrorResponse(400, "INVALID_IMAGE_DATA")
      [] NotNonEmptyStr(data.extracted_watermark) -> ErrorResponse(400, "INVALID_IMAGE_DATA")
      [] data.pcc_threshold.t # "absent"
           /\ (~IsNumber(data.pcc_threshold) \/ data.pcc_threshold.n < 0
               \/ data.pcc_threshold.n > 10) ->
             ErrorResponse(400, "INVALID_THRESHOLD")
      [] data.save_record.t \notin {"absent", "bool"} -> ErrorResponse(400, "INVALID_BOOLEAN")
      [] data.suspect_image.t \notin {"absent", "null", "str", "blankstr"} ->
             ErrorResponse(400, "INVALID_IMAGE_DATA")
      [] OTHER -> NoResponse

\* The parameters of StatDetectService.compare_watermarks_from_base64
CompareParams ==
    {"original_wm_b64", "extracted_wm_b64", "pcc_threshold", "save_record", "suspect_image_b64"}

\* The keyword arguments detect_watermark calls it with
DetectKwargs ==
    {"original_wm_b64", "extracted_wm_b64", "pcc_threshold", "save_record", "suspect_image_b64",
     "matched_json_path", "suspect_image_path"}

\* The kind of value the pcc_threshold field of a detect request has: a
\* number in [0, 1], a number outside, no number, or absent
ThresholdKind(data) ==
    CASE data.pcc_threshold.t \in {"absent", "null"} -> "absent"
      [] ~IsNumber(data.pcc_threshold) -> "no_number"
      [] data.pcc_threshold.n < 0 \/ data.pcc_threshold.n > 10 -> "out_of_range"
      [] OTHER -> "in_range"

\* The answer of both detect handlers to what the service did
DetectResponse(det) ==
    IF det.outcome = "raise" THEN ExceptResponse(det.exc, "WATERMARK_DETECT_ERROR")
    ELSE [NoResponse EXCEPT !.status_code = 200, !.success = TRUE, !.data = "detection"]

\* ImageController.detect_watermark on the request body data.  A keyword the
\* callee does not take is a TypeError at the call: its body does not run.
detect_watermark(data, disk) ==
    LET validation_error == _validate_detect_payload(data)
        Answer(r) == [r EXCEPT !.route = "images", !.pcc_threshold = ThresholdKind(data)]
        pcc_threshold == IF data.pcc_threshold.t = "absent" THEN default_pcc_threshold
                         ELSE data.pcc_threshold.n
        save_record == data.save_record.t = "bool" /\ data.save_record.v
        det == IF DetectKwargs \subseteq CompareParams
               THEN compare_watermarks_from_base64(data.original_watermark.v,
                                                   data.extracted_watermark.v,
                                                   AlphaArg(pcc_threshold), save_record, disk)
               ELSE [NoDet EXCEPT !.outcome = "raise", !.exc = "TypeError",
                                  !.save_record = save_record,
                                  !.original = data.original_watermark.v,
                                  !.extracted = data.extracted_watermark.v]
    IN  IF ~data.is_json THEN Rejected(Answer(ErrorResponse(400, "INVALID_CONTENT_TYPE")))
        ELSE IF validation_error # NoResponse THEN Rejected(Answer(validation_error))
        ELSE /\ DetectDone(det)
             /\ response' = Answer(DetectResponse(det))

\* `not x` for a field x of the body
Falsy(x) ==
    \/ x.t \in {"absent", "null", "emptystr"}
    \/ x.t = "num" /\ x.n = 0
    \/ x.t = "bool" /\ ~x.v

\* direct_detect_watermark of the direct API on the request body data: the
\* fields go to the service as they are.  A mark that is no string and a
\* threshold that float() does not take make the service raise ValueError.
direct_detect_watermark(data, disk) ==
    LET Answer(r) == [r EXCEPT !.route = "direct", !.pcc_threshold = ThresholdKind(data)]
        Mark(x) == IF x.t = "str" THEN x.v ELSE GrayBad("none")
        pcc_threshold ==
            CASE data.pcc_threshold.t = "absent" -> AlphaArg(default_pcc_threshold)
              [] data.pcc_threshold.t = "null" -> AlphaNone
              [] OTHER -> AlphaArg(data.pcc_threshold.n)
        save_record == ~Falsy(data.save_record)
        called == compare_watermarks_from_base64(Mark(data.original_watermark),
                                                 Mark(data.extracted_watermark),
                                                 pcc_threshold, save_record, disk)
        det == IF called.outcome = "return" /\ ~IsNumber(data.pcc_threshold)
                  /\ data.pcc_threshold.t \notin {"absent", "null"}
               THEN [NoDet EXCEPT !.outcome = "raise", !.exc = "ValueError",
                                  !.save_record = save_record, !.disk = disk,
                                  !.original = called.original,
                                  !.extracted = called.extracted]
               ELSE called
    IN  IF ~data.is_json THEN Rejected(Answer(ErrorResponse(400, "INVALID_CONTENT_TYPE")))
        ELSE IF data.body = "empty" \/ Falsy(data.original_watermark)
                \/ Falsy(data.extracted_watermark)
        THEN Rejected(Answer(ErrorResponse(400, "MISSING_FIELD")))
        ELSE /\ DetectDone(det)
             /\ response' = Answer(DetectResponse(det))

\* The request bodies tried
EmbedBody(original_image, watermark_image, alpha) ==
    [is_json |-> TRUE, body |-> "obj", original_image |-> original_image,
     watermark_image |-> watermark_image, alpha |-> alpha]

ExtractBody(suspect_image, sideinfo_json_path) ==
    [is_json |-> TRUE, body |-> "obj", suspect_image |-> suspect_image,
     sideinfo_json_path |-> sideinfo_json_path]

DetectBody(original_watermark, extracted_watermark, pcc_threshold, save_record, suspect_image) ==
    [is_json |-> TRUE, body |-> "obj", original_watermark |-> original_watermark,
     extracted_watermark |-> extracted_watermark, pcc_threshold |-> pcc_threshold,
     save_record |-> save_record, suspect_image |-> suspect_image]

\* A body sent with another content type, and an empty body
Missent(b) == {[b EXCEPT !.is_json = FALSE], [b EXCEPT !.body = "empty"]}

\* a well-formed embed body with every alpha, and with one image changed
BaseEmbedBody == EmbedBody(JStr(B64Of(Host256)), JStr(B64Of(MarkImg)), JAbsent)

EmbedBodies ==
    {[BaseEmbedBody EXCEPT !.alpha = a] :
        a \in {JAbsent, JNum(6), JNum(0), JNum(15), JBool(TRUE), JStr(FALSE)}}
    \cup {[BaseEmbedBody EXCEPT !.original_image = o] :
            o \in {JAbsent, JEmptyStr, JStr(B64Of(HostOdd)), JStr(B64NotImage)}}
    \cup {[BaseEmbedBody EXCEPT !.watermark_image = w] :
            w \in {JAbsent, JNum(1), JStr(B64BadBase64)}}
    \cup Missent(BaseEmbedBody)

EmbedRequest ==
    \E data \in EmbedBodies, ph \in {Hex12, Hex13} :
        /\ embed_watermark(data, ph)
        /\ UNCHANGED dbVars

\* every suspect with every reference, and one suspect with the other fields
BaseExtractBody == ExtractBody(JStr(GoodSuspect), JAbsent)

ExtractRequest ==
    \E data \in {ExtractBody(JStr(s), r) :
                    s \in Suspects,
                    r \in {JAbsent, JBlankStr}
                          \cup {JStr(FileRef(p)) : p \in DOMAIN jsonFiles}}
                \cup {[BaseExtractBody EXCEPT !.sideinfo_json_path = r] :
                        r \in {JNull, JNum(1), JEmptyStr} \cup {JStr(x) : x \in StaticRefs}}
                \cup {[BaseExtractBody EXCEPT !.suspect_image = x] :
                        x \in {JAbsent, JEmptyStr, JNum(1)}}
                \cup Missent(BaseExtractBody),
       order \in CatalogOrders :
        /\ extract_watermark(data, order)
        /\ UNCHANGED dbVars

\* a well-formed detect body, and the body with one field changed
BaseDetectBody ==
    DetectBody(JStr(GrayB64(<<0, 8, 20>>)), JStr(GrayB64(<<20, 12, 0>>)), JAbsent, JAbsent,
               JAbsent)

DetectBodies ==
    {[BaseDetectBody EXCEPT !.original_watermark = x] :
        x \in {JAbsent, JEmptyStr, JStr(GrayB64(<<0, 8, 20>>)), JStr(GrayBad("not_image"))}}
    \cup {[BaseDetectBody EXCEPT !.extracted_watermark = x] :
            x \in {JAbsent, JNum(1), JStr(GrayB64(<<0, 8, 20>>)), JStr(GrayBad("not_image"))}}
    \cup {[BaseDetectBody EXCEPT !.pcc_threshold = x] :
            x \in {JNum(0), JNum(7), JNum(10), JNum(12), JNum(-3), JStr(FALSE)}}
    \cup {[BaseDetectBody EXCEPT !.save_record = x] :
            x \in {JBool(TRUE), JBool(FALSE), JNum(1)}}
    \cup {[BaseDetectBody EXCEPT !.suspect_image = x] :
            x \in {JNull, JEmptyStr, JNum(1), JStr(GoodSuspect)}}
    \cup Missent(BaseDetectBody)

DetectRequest ==
    \E data \in DetectBodies, disk \in {"ok", "full"} :
        /\ disk = "full" => data.save_record = JBool(TRUE)
        /\ detect_watermark(data, disk)
        /\ UNCHANGED dbVars

DirectDetectRequest ==
    \E data \in DetectBodies, disk \in {"ok", "full"} :
        /\ disk = "full" => data.save_record = JBool(TRUE)
        /\ direct_detect_watermark(data, disk)
        /\ UNCHANGED dbVars

NextController ==
    \/ EmbedRequest
    \/ ExtractRequest
    \/ DetectRequest
    \/ DirectDetectRequest

SpecController == Init /\ [][NextController]_vars

\* C19: the extract handler answers a valid request with HTTP 200: status
\* "extracted" with the extraction data when the service returned ok_extracted,
\* status "no_extraction" with the reason and proceed_to_embedding when it
\* returned skip_no_sideinfo or skip_bad_meta.
C19_ExtractHandlerAnswers200 ==
    (last.op = "extract_path" /\ response.route = "images" /\ last.res.outcome = "return") =>
        /\ response.status_code = 200
        /\ Returned(last, "ok_extracted") =>
               response.status = "extracted" /\ response.data = "extraction"
        /\ (Returned(last, "skip_no_sideinfo") \/ Returned(last, "skip_bad_meta")) =>
               /\ response.status = "no_extraction"
               /\ response.reason = last.res.reason
               /\ response.proceed_to_embedding

\* C20: the detect handler answers a valid request, one whose two marks are
\* images, with HTTP 200 and the detection result, metrics and comparison
\* results that compare_watermarks_from_base64 computed.
C20_DetectHandlerAnswers200 ==
    (last.op = "detect" /\ response.route = "images"
     /\ last.det.original.k = "image" /\ last.det.extracted.k = "image"
     /\ last.det.disk = "ok") =>
        /\ response.status_code = 200
        /\ response.data = "detection"
        /\ last.det.outcome = "return"
        /\ last.det.metrics = _compute_metrics(last.det.original.px, last.det.extracted.px)

\* ------------------------------------------------------- WatermarkService

\* The files, the HTTP answer and the calls in flight that a call on
\* WatermarkService leaves alone
WmFrame ==
    UNCHANGED <<imgFiles, jsonFiles, extractedFiles, nextUid, sideinfo_fetcher, embedding,
                response>>

\* SELECT ... WHERE watermark_id = k, as get_watermark_by_id returns it
get_watermark_by_id(rows, watermark_id) ==
    IF watermark_id \in DOMAIN rows THEN rows[watermark_id] ELSE NoWatermark

\* WatermarkService.create_watermark(store_name, watermark_url_image)
create_watermark(store_name, watermark_url_image) ==
    LET call == [NoWmCall EXCEPT !.store_name = store_name,
                                 !.watermark_url_image = watermark_url_image]
        watermark_id == next_watermark_id
        watermark == Watermark(watermark_id, strip(store_name.s), strip(watermark_url_image.s))
    IN  IF Blank(store_name) \/ Blank(watermark_url_image)
        THEN /\ last' = [NoCall EXCEPT !.op = "create",
                                       !.wm = [call EXCEPT !.outcome = "raise",
                                                           !.exc = "ValueError"]]
             /\ UNCHANGED <<watermarks, next_watermark_id>>
        ELSE /\ next_watermark_id <= MaxWm
             /\ watermarks' = (watermark_id :> watermark) @@ watermarks
             /\ next_watermark_id' = next_watermark_id + 1
             /\ last' = [NoCall EXCEPT !.op = "create",
                                       !.wm = [call EXCEPT !.watermark_id = watermark_id,
                                                           !.ret = watermark]]

\* WatermarkService.update_watermark(watermark_id, store_name, watermark_url_image)
update_watermark(watermark_id, store_name, watermark_url_image) ==
    LET call == [NoWmCall EXCEPT !.watermark_id = watermark_id, !.store_name = store_name,
                                 !.watermark_url_image = watermark_url_image]
        old == watermarks[watermark_id]
        new == Watermark(watermark_id,
                         IF store_name.t = "none" THEN old.store_name ELSE strip(store_name.s),
                         IF watermark_url_image.t = "none" THEN old.watermark_url_image
                         ELSE strip(watermark_url_image.s))
        rows == IF watermark_id \in DOMAIN watermarks
                THEN [watermarks EXCEPT ![watermark_id] = new] ELSE watermarks
    IN  IF \/ store_name.t = "none" /\ watermark_url_image.t = "none"
           \/ store_name.t # "none" /\ strip(store_name.s) = <<>>
           \/ watermark_url_image.t # "none" /\ strip(watermark_url_image.s) = <<>>
        THEN /\ last' = [NoCall EXCEPT !.op = "update",
                                       !.wm = [call EXCEPT !.outcome = "raise",
                                                           !.exc = "ValueError"]]
             /\ UNCHANGED <<watermarks, next_watermark_id>>
        ELSE /\ watermarks' = rows
             /\ last' = [NoCall EXCEPT !.op = "update",
                                       !.wm = [call EXCEPT !.ret =
                                                   get_watermark_by_id(rows, watermark_id)]]
             /\ UNCHANGED next_watermark_id

\* A variant that reports success without looking the row up
delete_unchecked(watermark_id) ==
    /\ watermarks' = Without(watermarks, watermark_id)
    /\ last' = [NoCall EXCEPT !.op = "delete",
                              !.wm = [NoWmCall EXCEPT !.watermark_id = watermark_id,
                                                      !.deleted = TRUE]]
    /\ UNCHANGED next_watermark_id

\* WatermarkService.delete_watermark(watermark_id), with no other request
\* between its SELECT and its DELETE
delete_watermark(watermark_id) ==
    LET existing == get_watermark_by_id(watermarks, watermark_id)
    IN  /\ watermarks' = IF existing # NoWatermark THEN Without(watermarks, watermark_id)
                         ELSE watermarks
        /\ last' = [NoCall EXCEPT !.op = "delete",
                                  !.wm = [NoWmCall EXCEPT !.watermark_id = watermark_id,
                                                          !.deleted = existing # NoWatermark]]
        /\ UNCHANGED next_watermark_id

\* The arguments tried: store names and URLs with blanks at either end
StoreNames == {StrNone, Str(<<>>), Str(<<"a">>), Str(<<" ", "a", " ", "b", " ">>)}

Urls == {StrNone, Str(<<" ", " ">>), Str(<<" ", "v", " ">>)}

\* every id the sequence has handed out, and one it has not
Ids == 1..next_watermark_id

CreateWatermark ==
    \E store_name \in StoreNames, watermark_url_image \in Urls :
        /\ create_watermark(store_name, watermark_url_image)
        /\ UNCHANGED deletes
        /\ WmFrame

GetWatermark ==
    \E watermark_id \in Ids :
        /\ last' = [NoCall EXCEPT !.op = "get",
                                  !.wm = [NoWmCall EXCEPT !.watermark_id = watermark_id,
                                              !.ret = get_watermark_by_id(watermarks,
                                                                          watermark_id)]]
        /\ UNCHANGED dbVars
        /\ WmFrame

UpdateWatermark ==
    \E watermark_id \in Ids, store_name \in StoreNames, watermark_url_image \in Urls :
        /\ update_watermark(watermark_id, store_name, watermark_url_image)
        /\ UNCHANGED deletes
        /\ WmFrame

DeleteWatermark ==
    \E watermark_id \in Ids :
        /\ delete_watermark(watermark_id)
        /\ UNCHANGED deletes
        /\ WmFrame

NextDb ==
    \/ CreateWatermark
    \/ GetWatermark
    \/ UpdateWatermark
    \/ DeleteWatermark

SpecDb == Init /\ [][NextDb]_vars

\* A create, get, update or delete call that returned in this step
WmReturned(op) == last'.op = op /\ last'.wm.outcome = "return"

\* The rows that this step neither updated nor deleted are as they were
OtherRowsKept ==
    \A k \in DOMAIN watermarks :
        (last'.op \in {"update", "delete"} /\ last'.wm.watermark_id = k)
        \/ (k \in DOMAIN watermarks' /\ watermarks'[k] = watermarks[k])

\* C21: create_watermark returns a record with a new id k, and
\* get_watermark_by_id(k) returns id k with the trimmed store_name and url
\* until k is updated or deleted; ids of distinct creates are distinct (each
\* is at least the sequence value before the call, which then moves past it).
C21_CreateThenGet ==
    [][/\ WmReturned("create") =>
            LET k == last'.wm.ret.watermark_id
                got == get_watermark_by_id(watermarks', k)
            IN  /\ k \notin DOMAIN watermarks
                /\ k >= next_watermark_id /\ k < next_watermark_id'
                /\ got.watermark_id = k
                /\ got.store_name = strip(last'.wm.store_name.s)
                /\ got.watermark_url_image = strip(last'.wm.watermark_url_image.s)
                /\ got.store_name # <<>>
                /\ Head(got.store_name) # " " /\ got.store_name[Len(got.store_name)] # " "
                /\ last'.wm.ret = got
       /\ WmReturned("get") =>
            last'.wm.ret = get_watermark_by_id(watermarks, last'.wm.watermark_id)
       /\ next_watermark_id' >= next_watermark_id
       /\ OtherRowsKept]_vars

\* a create returned a row whose arguments had blanks around them
C21_Witness ==
    /\ last.op = "create" /\ last.wm.outcome = "return"
    /\ last.wm.store_name.s # last.wm.ret.store_name
    /\ last.wm.ret.watermark_id \in DOMAIN watermarks
    /\ Cardinality(DOMAIN watermarks) = 2

\* C22: delete_watermark(k) returns True exactly when a row with id k exists
\* at the call; afterwards the row is gone (get returns None, a repeated
\* delete returns False) and stays gone, and no other row is changed.
C22_DeleteReturnsExistence ==
    [][/\ WmReturned("delete") =>
            LET k == last'.wm.watermark_id
            IN  /\ last'.wm.deleted = (k \in DOMAIN watermarks)
                /\ get_watermark_by_id(watermarks', k) = NoWatermark
                /\ \A j \in DOMAIN watermarks \ {k} :
                       j \in DOMAIN watermarks' /\ watermarks'[j] = watermarks[j]
                /\ DOMAIN watermarks' \subseteq DOMAIN watermarks
       /\ \A k \in 1..(next_watermark_id - 1) :
            k \notin DOMAIN watermarks => k \notin DOMAIN watermarks']_vars

\* a delete returned True and left another row in the table
C22_Witness ==
    /\ last.op = "delete" /\ last.wm.deleted
    /\ last.wm.watermark_id \notin DOMAIN watermarks
    /\ watermarks # EmptyMap

\* a delete of an id that has no row returned False
C22_WitnessAbsent ==
    /\ last.op = "delete" /\ ~last.wm.deleted
    /\ last.wm.watermark_id < next_watermark_id

\* ------------------------------------------- delete_watermark, concurrently

\* Line 251 of request p: the SELECT of get_watermark_by_id, in a connection
\* of its own; a call that finds no row returns False
DeleteSelect(p) ==
    \E watermark_id \in Ids :
        LET existing == get_watermark_by_id(watermarks, watermark_id)
        IN  /\ deletes[p].pc = "idle"
            /\ deletes' = [deletes EXCEPT ![p] =
                              [pc |-> IF existing # NoWatermark THEN "found" ELSE "done",
                               watermark_id |-> watermark_id, ret |-> FALSE]]
            /\ UNCHANGED <<watermarks, next_watermark_id, last>>
            /\ WmFrame

\* Lines 253-254 of request p: the DELETE, in another connection, and True
DeleteExecute(p) ==
    /\ deletes[p].pc = "found"
    /\ watermarks' = Without(watermarks, deletes[p].watermark_id)
    /\ deletes' = [deletes EXCEPT ![p].pc = "done", ![p].ret = TRUE]
    /\ UNCHANGED <<next_watermark_id, last>>
    /\ WmFrame

NextDbConc ==
    \/ CreateWatermark
    \/ \E p \in Procs : DeleteSelect(p)
    \/ \E p \in Procs : DeleteExecute(p)

SpecDbConc == Init /\ [][NextDbConc]_vars

\* C28: of the concurrent delete_watermark(k) calls on one existing id k,
\* one returns True and all the others return False.
C28_OneDeleteReturnsTrue ==
    \A k \in 1..MaxWm :
        Cardinality({p \in Procs : /\ deletes[p].pc = "done"
                                   /\ deletes[p].watermark_id = k
                                   /\ deletes[p].ret}) <= 1

\* C23: the resolver tries the local path, then the URL, then the fetcher, and
\* resolves the reference whenever one of the three forms would yield a
\* record: a failed earlier form does not keep a later one from being tried.
C23_ResolverTriesEveryForm ==
    (last.op = "extract_path" /\ last.given /\ Ran(last) /\ ~CannotResolve(last.ref)) =>
        /\ last.resolved = "ok"
        /\ last.doc = _resolve_sideinfo(last.ref).meta
        /\ last.doc.top # "null"

\* -------------------------------------------------- pHash of a DCT block

\* low = dct[:8, :8]: BlockN rows of BlockN coefficients
BlockN == 8

\* ndarray.ravel() on a sequence of rows
RECURSIVE ravel(_)
ravel(rows) == IF rows = <<>> THEN <<>> ELSE Head(rows) \o ravel(Tail(rows))

\* The k-th smallest of the numbers xs
KthSmallest(xs, k) ==
    CHOOSE v \in {xs[i] : i \in DOMAIN xs} :
        /\ Cardinality({i \in DOMAIN xs : xs[i] < v}) < k
        /\ Cardinality({i \in DOMAIN xs : xs[i] <= v}) >= k

\* Twice np.median(xs): the middle one, or the mean of the two middle ones
Median2(xs) ==
    LET n == Len(xs)
    IN  IF n % 2 = 1 THEN 2 * KthSmallest(xs, (n + 1) \div 2)
        ELSE KthSmallest(xs, n \div 2) + KthSmallest(xs, n \div 2 + 1)

\* f"{val:016x}" of the bits, most significant first: one hex digit per four
HexOfBits(bits) ==
    [d \in 1..(Len(bits) \div 4) |->
        8 * bits[4 * d - 3] + 4 * bits[4 * d - 2] + 2 * bits[4 * d - 1] + bits[4 * d]]

\* The bits (low > med), packed
BitsAbove(low, med2) ==
    LET flat == ravel(low)
    IN  HexOfBits([i \in 1..(BlockN * BlockN) |-> IF 2 * flat[i] > med2 THEN 1 ELSE 0])

\* Lines 201-208 of _phash64_from_pil on the block low: low[1:] is the block
\* without its first row
PhashOfBlock(low) == BitsAbove(low, Median2(ravel(Tail(low))))

\* The blocks tried: a DC coefficient, one value in the rest of the first
\* row, and the other rows filled from a pattern
Block(dc, top, base, m) ==
    [i \in 1..BlockN |->
        [j \in 1..BlockN |->
            IF i = 1 /\ j = 1 THEN dc
            ELSE IF i = 1 THEN top
            ELSE base + ((i * j) % m)]]

Blocks ==
    {Block(dc, top, base, m) :
        dc \in {0, 50, 100}, top \in {-5, 1, 9}, base \in {-1, 0, 1}, m \in 1..4}

InitPhash ==
    /\ Init
    /\ sideinfo_fetcher = "none"

PhashInput ==
    \E low \in Blocks :
        /\ last.op = "none"
        /\ last' = [NoCall EXCEPT !.op = "phash_input", !.low = low]
        /\ UNCHANGED dbVars
        /\ WmFrame

Phash ==
    /\ last.op = "phash_input"
    /\ last' = [last EXCEPT !.op = "phash", !.hash = PhashOfBlock(last.low)]
    /\ UNCHANGED dbVars
    /\ WmFrame

NextPhash ==
    \/ PhashInput
    \/ Phash

SpecPhash == InitPhash /\ [][NextPhash]_vars

\* C24: the median is taken over the 63 coefficients of the block other than
\* the DC coefficient, and each of the 64 bits is 1 exactly when its block
\* element exceeds that median.
C24_MedianOfAllButDc ==
    last.op = "phash" =>
        last.hash = BitsAbove(last.low, Median2(Tail(ravel(last.low))))

\* The image embed wrote with record jp: out_path is watermarked_<uid>.jpg and
\* meta_path is its stem + ".wm.json" (embeded_service.py 75, 105)
EmbedImageOf(jp) == MkPath(jp.dir, jp.uid, <<"jpg">>)

\* A parsable record whose output_path is absent or names no file, with the
\* image of its embed still next to it
Orphaned(jp) ==
    LET doc == jsonFiles[jp].doc
    IN  /\ jsonFiles[jp].ok
        /\ doc.top = "obj"
        /\ doc.output_path.t = "absent" \/ ~Exists(doc.output_path.p)
        /\ EmbedImageOf(jp) \in DOMAIN imgFiles

\* C25: in the catalog walk a record of embed whose output_path is absent or
\* stale is paired with the image embed wrote under the same stem: that image
\* is located and hashed, so a suspect within the threshold of it is found.
C25_StemSubstitutionFindsImage ==
    last.op = "lookup" =>
        \A jp \in GlobWmJson(CatalogDir) :
            Orphaned(jp) =>
                /\ LocateImage(jp, jsonFiles[jp].doc) = EmbedImageOf(jp)
                /\ _hamming64(last.suspect.img.ph, imgFiles[EmbedImageOf(jp)].ph) <= last.max_ham
                       => Found

\* C26: on both detect endpoints a request whose pcc_threshold is no number in
\* [0, 1] is rejected with a validation error and gets no decision.
C26_BadThresholdIsRejected ==
    (response.route # "" /\ response.pcc_threshold \in {"no_number", "out_of_range"}) =>
        /\ response.status_code = 400
        /\ ~(last.op = "detect" /\ last.det.outcome = "return")

\* C27: a catalog lookup that runs while an embed is between its writes raises
\* nothing, and the record it returns has a complete JSON document and a
\* complete watermarked image on disk.
C27_LookupSeesWholeRecords ==
    last.op = "lookup" =>
        /\ last.best.exc = ""
        /\ Found =>
            /\ jsonFiles[last.best.json].ok
            /\ last.best.meta = jsonFiles[last.best.json].doc
            /\ LET img == LocateImage(last.best.json, last.best.meta)
               IN  img \in DOMAIN imgFiles /\ imgFiles[img].ok

\* a lookup that ran while the record of a second embed was open returned the
\* record of the first
C27_Witness ==
    /\ last.op = "lookup"
    /\ last.during = "record_open"
    /\ Found
    /\ Cardinality(DOMAIN jsonFiles) = 2

\* a lookup that ran while the image of an embed was being written found nothing
C27_WitnessOpenImage ==
    /\ last.op = "lookup"
    /\ last.during = "image_open"
    /\ ~Found

\* C29: when an extract call or a detect call ends, by a result of any status
\* or by an exception, the temporary directory and files it made are gone.
C29_NoTemporaryFilesLeft ==
    last.op \in {"extract_path", "extract_json", "detect"} => last.tmp = {}

\* A step that is an extract call running to its end
ExtractEnds ==
    /\ last'.op \in {"extract_path", "extract_json"}
    /\ nextUid' # nextUid

\* C30: only an extract call that returns ok_extracted writes a file to the
\* output directory; a skip_no_sideinfo or skip_bad_meta result leaves the
\* directory as it was, and an ok_extracted result carries extracted_image_b64
\* and a unique_id that no earlier call used.
C30_OnlyOkExtractedWrites ==
    [][/\ extractedFiles' # extractedFiles =>
              /\ ExtractEnds
              /\ last'.res.outcome = "return"
              /\ last'.res.status = "ok_extracted"
       /\ (ExtractEnds /\ last'.res.outcome = "return"
              /\ last'.res.status \in {"skip_no_sideinfo", "skip_bad_meta"}) =>
              /\ extractedFiles' = extractedFiles
              /\ ~last'.extracted_image_b64
       /\ (ExtractEnds /\ last'.res.outcome = "return" /\ last'.res.status = "ok_extracted") =>
              /\ last'.extracted_image_b64
              /\ last'.unique_id >= nextUid
              /\ last'.unique_id \notin extractedFiles
              /\ \A p \in DOMAIN imgFiles \cup DOMAIN jsonFiles : p.uid # last'.unique_id
              /\ extractedFiles' = extractedFiles \cup {last'.unique_id}]_vars

\* a second extraction has returned ok_extracted, under a new unique_id
C30_Witness ==
    /\ last.op \in {"extract_path", "extract_json"}
    /\ last.res.status = "ok_extracted"
    /\ last.extracted_image_b64
    /\ Cardinality(extractedFiles) = 2
    /\ last.unique_id \in extractedFiles

\* a skip after an extraction: the file of the extraction is all there is
C30_WitnessSkip ==
    /\ last.op \in {"extract_path", "extract_json"}
    /\ last.res.status \in {"skip_no_sideinfo", "skip_bad_meta"}
    /\ Cardinality(extractedFiles) = 1
    /\ nextUid = 3

====
